---- MODULE Spec2Model ----
(***************************************************************************)
(* Model of the DJI / anemometer calibration scripts.                      *)
(*                                                                         *)
(* Text is modelled as a sequence of one-character strings, so that        *)
(* splitting, integer parsing, padding, slicing and formatting are         *)
(* computed character by character as the Python code computes them.       *)
(* A Python value that may be a string, None or something else is a        *)
(* record [kind, s]; an exception leaving a block is [kind |-> "exc"].     *)
(***************************************************************************)
EXTENDS Integers, Sequences, FiniteSets, TLC

VARIABLES
    script,     \* which entry point this run executes
    pc,         \* position of the run inside that entry point
    raw_ts,     \* parse_timestamp: the value passed as raw_ts
    assume_tz_name, \* the zone name passed to parse_timestamp / convert_file
    out_v1,     \* result of convert_anemometer.parse_timestamp
    out_v2,     \* result of convert_anemometer_v2.parse_timestamp
    tz_v2,      \* the (unused) zone argument handed to the v2 parse_timestamp
    keep_sn,    \* convert_file: the keep_sn flag
    lines,      \* convert_file: the lines of the input file
    index,      \* convert_file, test: how many input lines have been handled
    rows,       \* convert_file: the list rows
    out_file,   \* convert_file: the output file, [exists, header, data]
    exit_code,  \* status of sys.exit, or -1 while none was raised
    df,         \* format_time: the column Drone_Time(PST), one text per row
    df_index,   \* format_time: how many rows DataFrame.apply has handled
    df_utc,     \* format_time: values computed for Drone_Time(UTC+RFC3339)
    raised,     \* name of the exception that left the run, or "" for none
    out_again,  \* result of the v2 parse_timestamp on the text v1 returned
    ame,        \* rows of the anemometer CSV, as csv.DictReader gives them
    dji,        \* rows of the drone CSV
    math_data,  \* main: the list math_data
    vector_output, \* rows written to vector_output.csv / the frame written back
    matches,    \* test(ame, dji): the list matches
    printed,    \* what the run has printed
    swapped,    \* outcome of the call test(dji, ame), the arguments exchanged
    batch_size, \* load_*_csv: the argument batch_size
    batch,      \* load_*_csv: the list batch
    db,         \* what the connection was asked to do, in order
    scan        \* parse_line: [index, row, current_key] of the key/value loop

vars == <<script, pc, raw_ts, assume_tz_name, out_v1, out_v2, tz_v2, keep_sn,
          lines, index, rows, out_file, exit_code, df, df_index, df_utc, raised,
          out_again, ame, dji, math_data, vector_output, matches, printed,
          swapped, batch_size, batch, db, scan>>

\* the variables of the database loader
loaderVars == <<batch_size, batch, db>>

\* the variables of the vector and alignment scripts
vectorVars == <<ame, dji, math_data, vector_output, matches, printed, swapped>>

-----------------------------------------------------------------------------
(* Bounds of the model *)

\* longest run of fractional digits generated after the seconds' "."
MaxFrac == 6
\* most lines in a generated anemometer input file
MaxLines == 3
\* most rows in a generated drone data frame
MaxRows == 3
\* largest batch_size handed to the loader
MaxBatch == 3
\* most tokens after the timestamp in a line generated for parse_line alone
MaxTokens == 3

-----------------------------------------------------------------------------
(* Python text primitives *)

Digit == <<"0", "1", "2", "3", "4", "5", "6", "7", "8", "9">>

IsDigit(c) == \E i \in 1..10 : Digit[i] = c

DigitVal(c) == (CHOOSE i \in 1..10 : Digit[i] = c) - 1

\* str(c) for a single decimal digit c
DigitChar(n) == Digit[n + 1]

\* whitespace as str.strip() and str.split() see it
IsSpace(c) == c \in {" ", "\t", "\n"}

RECURSIVE Str(_)
\* the text of a character sequence, for reading and for literals
Str(s) == IF s = <<>> THEN "" ELSE Head(s) \o Str(Tail(s))

\* Op(v) with v evaluated once, as a Python local variable is
Bound(v, Op(_)) == CHOOSE r \in {Op(x) : x \in {v}} : TRUE

\* the characters of a string literal
Chars(str) == [i \in 1..Len(str) |-> SubSeq(str, i, i)]

\* s[:n]
Take(s, n) == IF n >= Len(s) THEN s ELSE SubSeq(s, 1, n)

\* s[n:]
Drop(s, n) == IF n >= Len(s) THEN <<>> ELSE SubSeq(s, n + 1, Len(s))

\* c in s
Contains(s, c) == \E i \in 1..Len(s) : s[i] = c

\* s.find(c) + 1, for a c that occurs in s
FirstIndex(s, c) == CHOOSE i \in 1..Len(s) : s[i] = c /\ \A j \in 1..(i - 1) : s[j] # c

RECURSIVE Split(_, _)
\* s.split(sep) for a one-character sep: always at least one part
Split(s, sep) ==
    Bound(s, LAMBDA x :
        IF ~Contains(x, sep) THEN <<x>>
        ELSE LET i == FirstIndex(x, sep)
             IN  <<Take(x, i - 1)>> \o Split(Drop(x, i), sep))

\* s.split(sep, 1) for a one-character sep that occurs in s
SplitOnce(s, sep) ==
    LET i == FirstIndex(s, sep) IN <<Take(s, i - 1), Drop(s, i)>>

RECURSIVE LStrip(_)
LStrip(s) == IF s # <<>> /\ IsSpace(Head(s)) THEN LStrip(Tail(s)) ELSE s

RECURSIVE RStrip(_)
RStrip(s) ==
    Bound(s, LAMBDA x :
        IF x # <<>> /\ IsSpace(x[Len(x)]) THEN RStrip(Take(x, Len(x) - 1)) ELSE x)

\* s.strip()
Strip(s) == RStrip(LStrip(s))

RECURSIVE SplitWs(_)
\* s.split(): the maximal runs of non-whitespace characters
SplitWs(s) ==
    Bound(LStrip(s), LAMBDA t :
        IF t = <<>> THEN <<>>
        ELSE LET ends == {i \in 1..Len(t) : IsSpace(t[i])}
                 n == IF ends = {} THEN Len(t)
                      ELSE (CHOOSE i \in ends : \A j \in ends : i <= j) - 1
             IN  <<Take(t, n)>> \o SplitWs(Drop(t, n)))

RECURSIVE DigitsValue(_, _)
\* value of a run of digits and underscores, read left to right
DigitsValue(s, acc) ==
    IF s = <<>> THEN acc
    ELSE IF Head(s) = "_" THEN DigitsValue(Tail(s), acc)
    ELSE DigitsValue(Tail(s), 10 * acc + DigitVal(Head(s)))

\* the body of an integer literal: digits, single underscores only between digits
IsIntBody(s) ==
    /\ s # <<>>
    /\ \A i \in 1..Len(s) : IsDigit(s[i]) \/ s[i] = "_"
    /\ IsDigit(s[1]) /\ IsDigit(s[Len(s)])
    /\ \A i \in 1..(Len(s) - 1) : ~(s[i] = "_" /\ s[i + 1] = "_")

\* int(s): surrounding whitespace, an optional sign, digits with underscores;
\* anything else is a ValueError
PyInt(s) ==
    Bound(Strip(s), LAMBDA t :
        LET signed == t # <<>> /\ Head(t) \in {"+", "-"}
            body == IF signed THEN Tail(t) ELSE t
        IN  IF IsIntBody(body)
            THEN [ok |-> TRUE,
                  val |-> IF signed /\ Head(t) = "-" THEN 0 - DigitsValue(body, 0)
                          ELSE DigitsValue(body, 0)]
            ELSE [ok |-> FALSE, val |-> 0])

RECURSIVE NatChars(_)
\* str(n) for n >= 0
NatChars(n) ==
    IF n < 10 THEN <<DigitChar(n)>> ELSE NatChars(n \div 10) \o <<DigitChar(n % 10)>>

RECURSIVE ZFill(_, _)
\* s.zfill(w)
ZFill(s, w) == IF Len(s) >= w THEN s ELSE ZFill(<<"0">> \o s, w)

\* f"{n:0wd}" and strftime's zero-padded numeric fields, n >= 0
Fmt(n, w) == ZFill(NatChars(n), w)

-----------------------------------------------------------------------------
(* Python values *)

None == [kind |-> "None", s |-> <<>>]

PyStr(s) == [kind |-> "str", s |-> s]

\* an exception of class cls leaving the block
Exc(cls) == [kind |-> "exc", s |-> cls]

\* a value that is neither a string nor None, such as the number 5
NonStr(t) == [kind |-> t, s |-> <<>>]

\* bool(value): None, the empty string and the number 0 are falsy
Truthy(v) ==
    CASE v.kind = "None" -> FALSE
      [] v.kind = "str" -> v.s # <<>>
      [] v.kind = "zero" -> FALSE
      [] OTHER -> TRUE

-----------------------------------------------------------------------------
(* datetime: the proleptic Gregorian calendar of Python's datetime module *)

IsLeap(y) == y % 4 = 0 /\ (y % 100 # 0 \/ y % 400 = 0)

DaysInMonth(y, m) ==
    IF m = 2 THEN (IF IsLeap(y) THEN 29 ELSE 28)
    ELSE IF m \in {4, 6, 9, 11} THEN 30 ELSE 31

RECURSIVE DaysBeforeMonth(_, _)
DaysBeforeMonth(y, m) ==
    IF m = 1 THEN 0 ELSE DaysBeforeMonth(y, m - 1) + DaysInMonth(y, m - 1)

DaysBeforeYear(y) ==
    (y - 1) * 365 + ((y - 1) \div 4) - ((y - 1) \div 100) + ((y - 1) \div 400)

\* date.toordinal(): 1 for 0001-01-01
Ymd2Ord(y, m, d) == DaysBeforeYear(y) + DaysBeforeMonth(y, m) + d

\* date.fromordinal(n), by the 400/100/4/1-year cycles
Ord2Ymd(ord) ==
    LET n0 == ord - 1
        n400 == n0 \div 146097
        r400 == n0 % 146097
        n100 == r400 \div 36524
        r100 == r400 % 36524
        n4 == r100 \div 1461
        r4 == r100 % 1461
        n1 == r4 \div 365
        n == r4 % 365
        year == n400 * 400 + 1 + n100 * 100 + n4 * 4 + n1
    IN  IF n1 = 4 \/ n100 = 4
        THEN [year |-> year - 1, month |-> 12, day |-> 31]
        ELSE LET month == CHOOSE m \in 1..12 :
                     /\ DaysBeforeMonth(year, m) <= n
                     /\ n < DaysBeforeMonth(year, m) + DaysInMonth(year, m)
             IN  [year |-> year, month |-> month,
                  day |-> n - DaysBeforeMonth(year, month) + 1]

\* date.weekday(): Monday is 0, Sunday is 6
Weekday(y, m, d) == (Ymd2Ord(y, m, d) + 6) % 7

\* datetime(Y, M, D, h, m, s, us, ...): the range checks of the constructor
DateTime(Y, M, D, h, m, s, us) ==
    IF /\ Y \in 1..9999
       /\ M \in 1..12
       /\ D >= 1 /\ D <= DaysInMonth(Y, M)
       /\ h \in 0..23
       /\ m \in 0..59
       /\ s \in 0..59
       /\ us >= 0 /\ us <= 999999
    THEN [ok |-> TRUE,
          dt |-> [year |-> Y, month |-> M, day |-> D, hour |-> h,
                  minute |-> m, second |-> s, microsecond |-> us]]
    ELSE [ok |-> FALSE,
          dt |-> [year |-> 1, month |-> 1, day |-> 1, hour |-> 0,
                  minute |-> 0, second |-> 0, microsecond |-> 0]]

-----------------------------------------------------------------------------
(* zoneinfo: the zones the scripts are run with *)

\* the keys ZoneInfo() finds in the time zone database
KnownZones == {"America/Vancouver", "America/Los_Angeles", "UTC", "Asia/Tokyo"}

\* ZoneInfo(name) raises ZoneInfoNotFoundError for any other key
ZoneInfoFound(name) == name \in KnownZones

\* the n-th Sunday of month m
NthSunday(y, m, n) == CHOOSE d \in (7 * n - 6)..(7 * n) : Weekday(y, m, d) = 6

\* the last Sunday of a 31-day month m
LastSunday(y, m) == CHOOSE d \in 25..31 : Weekday(y, m, d) = 6

\* month, day and hour as one ordered key
WallKey(M, D, h) == (M * 100 + D) * 100 + h

\* Pacific daylight time as fold=1 reads a wall time: the spring gap counts as
\* daylight time and the autumn overlap as standard time
PacificDstFold1(dt) ==
    LET y == dt.year
        start == CASE y >= 2007 -> WallKey(3, NthSunday(y, 3, 2), 2)
                   [] y >= 1987 /\ y < 2007 -> WallKey(4, NthSunday(y, 4, 1), 2)
        end == CASE y >= 2007 -> WallKey(11, NthSunday(y, 11, 1), 1)
                 [] y >= 1987 /\ y < 2007 -> WallKey(10, LastSunday(y, 10), 1)
        now == WallKey(dt.month, dt.day, dt.hour)
    IN  start <= now /\ now < end

\* Pacific daylight time is in force at wall time dt read with fold=0. From 2007
\* it runs from the second Sunday of March to the first Sunday of November, from
\* 1987 to 2006 from the first Sunday of April to the last Sunday of October.
\* With fold=0 a wall time in the spring gap (02:00-03:00) still counts as
\* standard time, and a wall time in the autumn overlap (01:00-02:00) as
\* daylight time.
PacificDst(dt) ==
    LET y == dt.year
        start == CASE y >= 2007 -> WallKey(3, NthSunday(y, 3, 2), 3)
                   [] y >= 1987 /\ y < 2007 -> WallKey(4, NthSunday(y, 4, 1), 3)
        end == CASE y >= 2007 -> WallKey(11, NthSunday(y, 11, 1), 2)
                 [] y >= 1987 /\ y < 2007 -> WallKey(10, LastSunday(y, 10), 2)
        now == WallKey(dt.month, dt.day, dt.hour)
    IN  start <= now /\ now < end

\* tz.utcoffset(dt) in seconds, for a wall time dt carrying fold=0
UtcOffset(name, dt) ==
    CASE name \in {"America/Vancouver", "America/Los_Angeles"} ->
             IF PacificDst(dt) THEN 0 - 7 * 3600 ELSE 0 - 8 * 3600
      [] name = "Asia/Tokyo" -> 9 * 3600
      [] name = "UTC" -> 0

\* A conversion that adds the offset where it should subtract it
AsTimezoneUtcWrongSign(name, dt) ==
    LET secs == dt.hour * 3600 + dt.minute * 60 + dt.second + UtcOffset(name, dt)
        days == Ymd2Ord(dt.year, dt.month, dt.day) + (secs \div 86400)
        sod == secs % 86400
        ymd == Ord2Ymd(days)
    IN  [ok |-> TRUE,
         dt |-> [year |-> ymd.year, month |-> ymd.month, day |-> ymd.day,
                 hour |-> sod \div 3600, minute |-> (sod % 3600) \div 60,
                 second |-> sod % 60, microsecond |-> dt.microsecond]]

\* A conversion that shifts the clock and leaves the date alone
AsTimezoneUtcNoCarry(name, dt) ==
    LET secs == dt.hour * 3600 + dt.minute * 60 + dt.second - UtcOffset(name, dt)
        sod == secs % 86400
    IN  [ok |-> TRUE,
         dt |-> [dt EXCEPT !.hour = sod \div 3600, !.minute = (sod % 3600) \div 60,
                           !.second = sod % 60]]

\* dt.astimezone(timezone.utc): dt - utcoffset, through the day ordinal and the
\* second of the day; OverflowError outside the years 1..9999
AsTimezoneUtc(name, dt) ==
    LET secs == dt.hour * 3600 + dt.minute * 60 + dt.second - UtcOffset(name, dt)
        days == Ymd2Ord(dt.year, dt.month, dt.day) + (secs \div 86400)
        sod == secs % 86400
        ymd == Ord2Ymd(days)
    IN  IF days >= 1 /\ days <= 3652059
        THEN [ok |-> TRUE,
              dt |-> [year |-> ymd.year, month |-> ymd.month, day |-> ymd.day,
                      hour |-> sod \div 3600, minute |-> (sod % 3600) \div 60,
                      second |-> sod % 60, microsecond |-> dt.microsecond]]
        ELSE [ok |-> FALSE, dt |-> dt]

\* dt.strftime("%Y-%m-%dT%H:%M:%S") for a year of four digits
StrftimeSeconds(dt) ==
    Fmt(dt.year, 4) \o <<"-">> \o Fmt(dt.month, 2) \o <<"-">> \o Fmt(dt.day, 2)
    \o <<"T">> \o Fmt(dt.hour, 2) \o <<":">> \o Fmt(dt.minute, 2)
    \o <<":">> \o Fmt(dt.second, 2)

-----------------------------------------------------------------------------
(* Timestamp normalizer: parse_timestamp of both converters *)

\* ms_str[:3] filled with zeros on the left, as int(ms_str) would read it
PadMsLeft(ms_str) == ZFill(Take(ms_str, 3), 3)

\* (ms_str + "000")[:3]
PadMs(ms_str) == Take(ms_str \o <<"0", "0", "0">>, 3)

\* The seconds field: SS and micro, or a ValueError from int()
SecondsField(sec_part) ==
    IF Contains(sec_part, ".")
    THEN LET p == SplitOnce(sec_part, ".")
             SS == PyInt(p[1])
             ms == PyInt(PadMs(p[2]))
         IN  [ok |-> SS.ok /\ ms.ok, SS |-> SS.val, micro |-> ms.val * 1000]
    ELSE LET SS == PyInt(sec_part)
         IN  [ok |-> SS.ok, SS |-> SS.val, micro |-> 0]

\* the six fields of raw_ts as numbers, or a ValueError from one of the int()
FieldValues(parts) ==
    LET yy == PyInt(parts[1])
        MM == PyInt(parts[2])
        DD == PyInt(parts[3])
        HH == PyInt(parts[4])
        mm == PyInt(parts[5])
        sec == SecondsField(parts[6])
    IN  [ok |-> yy.ok /\ MM.ok /\ DD.ok /\ HH.ok /\ mm.ok /\ sec.ok,
         YYYY |-> 2000 + yy.val, MM |-> MM.val, DD |-> DD.val, HH |-> HH.val,
         mm |-> mm.val, SS |-> sec.SS, micro |-> sec.micro]

\* The two return statements: milliseconds are written only when micro is not 0
Rfc3339(dt_utc, micro) ==
    IF micro # 0
    THEN PyStr(StrftimeSeconds(dt_utc) \o <<".">>
               \o Fmt(dt_utc.microsecond \div 1000, 3) \o <<"Z">>)
    ELSE PyStr(StrftimeSeconds(dt_utc) \o <<"Z">>)

\* dt_local of convert_anemometer.parse_timestamp, as [ok, dt]
LocalDateTime(f) == DateTime(f.YYYY, f.MM, f.DD, f.HH, f.mm, f.SS, f.micro)

\* The try block of convert_anemometer.parse_timestamp: the value it returns, or
\* the exception that leaves it
TryBlockV1(raw, tz_name) ==
    Bound(Split(raw.s, ":"), LAMBDA parts :
        IF Len(parts) # 6 THEN None
        ELSE Bound(FieldValues(parts), LAMBDA f :
                 LET local == LocalDateTime(f)
                     utc == AsTimezoneUtc(tz_name, local.dt)
                 IN  IF ~f.ok THEN Exc("ValueError")
                     ELSE IF ~ZoneInfoFound(tz_name) THEN Exc("ZoneInfoNotFoundError")
                     ELSE IF ~local.ok THEN Exc("ValueError")
                     ELSE IF ~utc.ok THEN Exc("OverflowError")
                     ELSE Rfc3339(utc.dt, f.micro)))

\* A handler that lets the exception through
ExceptReraise(r) == r

\* except Exception: ... return None
ExceptReturnNone(r) == IF r.kind = "exc" THEN None ELSE r

\* convert_anemometer.parse_timestamp(raw_ts, assume_tz_name)
parse_timestamp(raw, tz_name) ==
    IF ~Truthy(raw) \/ raw.kind # "str" THEN None
    ELSE ExceptReturnNone(TryBlockV1(raw, tz_name))

\* The try block of convert_anemometer_v2.parse_timestamp; raw_ts.split of a
\* value that is no string is an AttributeError
TryBlockV2(raw) ==
    IF raw.kind # "str" THEN Exc("AttributeError")
    ELSE Bound(Split(raw.s, ":"), LAMBDA parts :
             IF Len(parts) # 6 THEN None
             ELSE Bound(FieldValues(parts), LAMBDA f :
                      LET utc == LocalDateTime(f)
                      IN  IF ~f.ok THEN Exc("ValueError")
                          ELSE IF ~utc.ok THEN Exc("ValueError")
                          ELSE Rfc3339(utc.dt, f.micro)))

\* A v2 that still converts from the zone it is handed, as v1 does
parse_timestamp_v2_zoned(raw, assume_tz_name_used) ==
    parse_timestamp(raw, assume_tz_name_used)

\* convert_anemometer_v2.parse_timestamp(raw_ts, assume_tz_name_unused)
parse_timestamp_v2(raw, assume_tz_name_unused) == ExceptReturnNone(TryBlockV2(raw))

-----------------------------------------------------------------------------
(* Line parser: parse_line of both converters *)

\* a number held in a row: kind is "int" or "float"; a float is mant / 10^exp
Num(kind, mant, exp) == [kind |-> kind, s |-> <<>>, mant |-> mant, exp |-> exp]

EmptyStr == PyStr(<<>>)

RECURSIVE StripZeros(_, _)
\* mant / 10^exp with no trailing zero left in the fraction
StripZeros(mant, exp) ==
    IF exp > 0 /\ mant % 10 = 0 THEN StripZeros(mant \div 10, exp - 1)
    ELSE [mant |-> mant, exp |-> exp]

\* float(item) for decimal text without exponent: surrounding whitespace, an
\* optional sign, digits, an optional point and digits; else a ValueError
PyFloat(item) ==
    Bound(Strip(item), LAMBDA t :
    LET signed == t # <<>> /\ Head(t) \in {"+", "-"}
        body == IF signed THEN Tail(t) ELSE t
        pointed == Contains(body, ".")
        ip == IF pointed THEN SplitOnce(body, ".")[1] ELSE body
        fp == IF pointed THEN SplitOnce(body, ".")[2] ELSE <<>>
        wellFormed == /\ ip = <<>> \/ IsIntBody(ip)
                      /\ fp = <<>> \/ IsIntBody(fp)
                      /\ ip # <<>> \/ fp # <<>>
        digits == {i \in 1..Len(fp) : IsDigit(fp[i])}
        mag == StripZeros(DigitsValue(ip \o fp, 0), Cardinality(digits))
    IN  IF wellFormed
        THEN [ok |-> TRUE,
              val |-> Num("float",
                          IF signed /\ Head(t) = "-" THEN 0 - mag.mant ELSE mag.mant,
                          mag.exp)]
        ELSE [ok |-> FALSE, val |-> EmptyStr])

\* item.upper() of one character, for the letters the SN test looks at
Upper(c) == CASE c = "s" -> "S" [] c = "n" -> "N" [] OTHER -> c

\* item.upper().startswith("SN") and item[2:].isdigit()
IsSnItem(item) ==
    /\ Len(item) >= 3
    /\ Upper(item[1]) = "S" /\ Upper(item[2]) = "N"
    /\ \A i \in 3..Len(item) : IsDigit(item[i])

\* known_keys.get(item), "" standing for a token that is no known key
KnownKey(item) ==
    CASE item = Chars("U") -> "U"
      [] item = Chars("V") -> "V"
      [] item = Chars("T") -> "T"
      [] item = Chars("Battery%") -> "BatteryPct"
      [] item = Chars("BATTV") -> "BattV"
      [] item = Chars("BATTC") -> "BattC"
      [] OTHER -> ""

\* The key/value pass with the key left pending after its value was read
PairStepKeepsKey(parts, st) ==
    LET item == parts[st.index]
        value == PyFloat(item)
    IN  IF KnownKey(item) # ""
        THEN [index |-> st.index + 1, row |-> st.row, current_key |-> KnownKey(item)]
        ELSE IF st.current_key # ""
        THEN [index |-> st.index + 1,
              row |-> [st.row EXCEPT ![st.current_key] =
                           IF value.ok THEN value.val ELSE EmptyStr],
              current_key |-> st.current_key]
        ELSE [index |-> st.index + 1, row |-> st.row, current_key |-> st.current_key]

\* One pass of the key/value loop at parts[st.index] (counted from 1);
\* st is [index, row, current_key], current_key "" standing for None
PairStep(parts, st) ==
    LET item == parts[st.index]
        value == PyFloat(item)
    IN  IF KnownKey(item) # ""
        THEN [index |-> st.index + 1, row |-> st.row, current_key |-> KnownKey(item)]
        ELSE IF st.current_key # ""
        THEN [index |-> st.index + 1,
              row |-> [st.row EXCEPT ![st.current_key] =
                           IF value.ok THEN value.val ELSE EmptyStr],
              current_key |-> ""]
        ELSE [index |-> st.index + 1, row |-> st.row, current_key |-> st.current_key]

RECURSIVE ScanPairs(_, _)
\* while index < len(parts): ... ; the row when the loop ends
ScanPairs(parts, st) ==
    Bound(st, LAMBDA x :
        IF x.index > Len(parts) THEN x.row ELSE ScanPairs(parts, PairStep(parts, x)))

\* One pass of the SN loop of convert_anemometer.parse_line;
\* st is [index, row, sn_count]
SnStep(parts, st, keep) ==
    LET number_only == Num("int", PyInt(Drop(parts[st.index], 2)).val, 0)
        col == IF st.sn_count = 0 THEN "sn1" ELSE "sn2"
    IN  [index |-> st.index + 1,
         row |-> [st.row EXCEPT ![col] = IF keep THEN number_only ELSE EmptyStr],
         sn_count |-> st.sn_count + 1]

RECURSIVE ScanSn(_, _, _)
\* while index < len(parts) and sn_count < 2: ... else: break
ScanSn(parts, st, keep) ==
    Bound(st, LAMBDA x :
        IF x.index <= Len(parts) /\ x.sn_count < 2 /\ IsSnItem(parts[x.index])
        THEN ScanSn(parts, SnStep(parts, x, keep), keep)
        ELSE x)

\* ts if ts is not None else ""
TsCell(ts) == IF ts # None THEN ts ELSE EmptyStr

\* convert_anemometer.parse_line(line, assume_tz_name, keep_sn): a row, None
\* for a blank line, or the exception that leaves parse_timestamp
parse_line(line, tz_name, keep) ==
    Bound(SplitWs(Strip(line)), LAMBDA parts :
    LET ts == parse_timestamp(PyStr(parts[1]), tz_name)
        row0 == [kind |-> "dict", raw_ts |-> PyStr(parts[1]), ts |-> TsCell(ts),
                 sn1 |-> EmptyStr, sn2 |-> EmptyStr, U |-> EmptyStr,
                 V |-> EmptyStr, T |-> EmptyStr, BatteryPct |-> EmptyStr,
                 BattV |-> EmptyStr, BattC |-> EmptyStr]
    IN  IF Strip(line) = <<>> \/ parts = <<>> THEN None
        ELSE IF ts.kind = "exc" THEN ts
        ELSE Bound(ScanSn(parts, [index |-> 2, row |-> row0, sn_count |-> 0], keep),
                   LAMBDA sn : ScanPairs(parts, [index |-> sn.index, row |-> sn.row,
                                                 current_key |-> ""])))

\* convert_anemometer_v2.parse_line(line, assume_tz_name, keep_sn): SN items
\* get no column and no loop of their own
parse_line_v2(line, tz_name, keep) ==
    Bound(SplitWs(Strip(line)), LAMBDA parts :
    LET ts == parse_timestamp_v2(PyStr(parts[1]), tz_name)
        row0 == [kind |-> "dict", raw_ts |-> PyStr(parts[1]), ts |-> TsCell(ts),
                 U |-> EmptyStr, V |-> EmptyStr, T |-> EmptyStr,
                 BatteryPct |-> EmptyStr, BattV |-> EmptyStr, BattC |-> EmptyStr]
    IN  IF Strip(line) = <<>> \/ parts = <<>> THEN None
        ELSE IF ts.kind = "exc" THEN ts
        ELSE ScanPairs(parts, [index |-> 2, row |-> row0, current_key |-> ""]))

\* The columns when the keep_sn flag is not looked at
ColumnsWithSn(keep) ==
    <<"raw_ts", "ts", "sn1", "sn2", "U", "V", "T", "BatteryPct", "BattV", "BattC">>

\* the columns convert_anemometer.convert_file writes
Columns(keep) ==
    IF keep
    THEN <<"raw_ts", "ts", "sn1", "sn2", "U", "V", "T", "BatteryPct", "BattV", "BattC">>
    ELSE <<"raw_ts", "ts", "U", "V", "T", "BatteryPct", "BattV", "BattC">>

\* the columns convert_anemometer_v2.convert_file writes
ColumnsV2 == <<"raw_ts", "ts", "U", "V", "T", "BatteryPct", "BattV", "BattC">>

\* {col: row.get(col, "") for col in columns}
RowDict(row, columns) ==
    [col \in {columns[i] : i \in 1..Len(columns)} |->
        IF col \in DOMAIN row THEN row[col] ELSE EmptyStr]

\* the file after the with-block: the header and one record per row
WrittenFile(rs, columns) ==
    [exists |-> TRUE, header |-> columns,
     data |-> [i \in 1..Len(rs) |-> RowDict(rs[i], columns)]]

-----------------------------------------------------------------------------
(* Vector resolvers: vector_math of vector_math_anemo.py and of compare.py,
   VectorMag / VectorDir of Components_to_Vector.py.  A float read from a CSV
   cell is [x, negzero]: x whole units, negzero for the IEEE value -0.0.
   Angles are in millionths of a degree, speeds in hundredths, rounded down. *)

\* float(cell) of a CSV cell: TypeError for None, ValueError for text that is
\* no number
FloatCell(cell) ==
    IF cell.kind # "str" THEN [ok |-> FALSE, x |-> 0, negzero |-> FALSE]
    ELSE Bound(PyFloat(cell.s), LAMBDA f :
           IF ~f.ok THEN [ok |-> FALSE, x |-> 0, negzero |-> FALSE]
           ELSE [ok |-> TRUE, x |-> f.val.mant,
                 negzero |-> f.val.mant = 0 /\ Head(Strip(cell.s)) = "-"])

\* math.degrees(math.atan2(v, u)), and np.degrees(np.arctan2(V, U)), for
\* components of magnitude 0, 1 or 2; the sign bit of a zero counts, as in libm
Atan2Degrees(v, u) ==
    LET av == IF v.x < 0 THEN 0 - v.x ELSE v.x
        au == IF u.x < 0 THEN 0 - u.x ELSE u.x
        a == CASE av = 0 -> 0
               [] av # 0 /\ au = 0 -> 90000000
               [] av # 0 /\ av = au -> 45000000
               [] av # 0 /\ 2 * av = au -> 26565051
               [] au # 0 /\ av = 2 * au -> 63434949
        b == IF u.x < 0 \/ (u.x = 0 /\ u.negzero) THEN 180000000 - a ELSE a
    IN  IF v.x < 0 \/ (v.x = 0 /\ v.negzero) THEN 0 - b ELSE b

\* np.sqrt(n) and n ** 0.5 for a whole n, in hundredths
Sqrt(n) == CHOOSE r \in 0..300 : r * r <= n * 10000 /\ (r + 1) * (r + 1) > n * 10000

\* vector_math_anemo.vector_math(s1, s2): (speed, direction)
vector_math(s1, s2) ==
    LET u == s1
        v == s2
    IN  IF u.x = 0 /\ v.x = 0 THEN <<0, 0>>
        ELSE <<Sqrt(u.x * u.x + v.x * v.x),
               ((0 - Atan2Degrees(v, u)) + 270000000) % 360000000>>

\* (180 / 3.14159) * radians, for the angle that math.degrees turns into deg:
\* deg * (pi / 3.14159), pi / 3.14159 = 1.0000008446...
Degrees314159(deg) ==
    IF deg >= 0 THEN deg + ((deg \div 10000) * 8446) \div 1000000
    ELSE 0 - ((0 - deg) + (((0 - deg) \div 10000) * 8446) \div 1000000)

\* compare.vector_math(s1, s2): (speed, direction)
compare_vector_math(s1, s2) ==
    LET u == s1
        v == s2
    IN  IF u.x = 0 /\ v.x = 0 THEN <<0, 0>>
        ELSE <<Sqrt(u.x * u.x + v.x * v.x),
               ((0 - Degrees314159(Atan2Degrees(v, u))) + 270000000) % 360000000>>

\* Components_to_Vector: (VectorMag, VectorDir) of one row of the frame
Components_to_Vector(U, V) ==
    <<Sqrt(U.x * U.x + V.x * V.x), (Atan2Degrees(V, U) + 360000000) % 360000000>>

-----------------------------------------------------------------------------
(* Drone timestamps: convert_UTC of Clean_and_Timestamp.py *)

\* a strptime field of lo..hi decimal digits: its value, or no match
DigitField(tok, lo, hi) ==
    IF Len(tok) >= lo /\ Len(tok) <= hi /\ \A i \in 1..Len(tok) : IsDigit(tok[i])
    THEN [ok |-> TRUE, val |-> DigitsValue(tok, 0)]
    ELSE [ok |-> FALSE, val |-> 0]

\* %f: one to six digits, padded on the right to microseconds
MicroField(tok) ==
    IF DigitField(tok, 1, 6).ok
    THEN [ok |-> TRUE,
          val |-> DigitsValue(Take(tok \o <<"0", "0", "0", "0", "0", "0">>, 6), 0)]
    ELSE [ok |-> FALSE, val |-> 0]

\* %p: AM or PM in either case; hour12 is the %I value
Hour24(ampm, hour12) ==
    IF ampm \in {Chars("AM"), Chars("am"), Chars("Am"), Chars("aM")}
    THEN (IF hour12 = 12 THEN 0 ELSE hour12)
    ELSE (IF hour12 = 12 THEN 12 ELSE hour12 + 12)

IsAmPm(tok) ==
    /\ Len(tok) = 2
    /\ tok[1] \in {"A", "a", "P", "p"}
    /\ tok[2] \in {"M", "m"}

\* datetime.strptime(text, "%Y-%m-%d %I:%M:%S.%f %p") for text whose fields are
\* separated by single "-", ":" and "." and by runs of whitespace: [ok, dt],
\* not ok standing for the ValueError of text that does not match
Strptime(text) ==
    Bound(SplitWs(text), LAMBDA toks :
    LET ymd == Split(toks[1], "-")
        hms == Split(toks[2], ":")
        sf == Split(hms[3], ".")
        Y == DigitField(ymd[1], 4, 4)
        m == DigitField(ymd[2], 1, 2)
        d == DigitField(ymd[3], 1, 2)
        I == DigitField(hms[1], 1, 2)
        M == DigitField(hms[2], 1, 2)
        S == DigitField(sf[1], 1, 2)
        f == MicroField(sf[2])
        shaped == /\ Strip(text) = text
                  /\ Len(toks) = 3
                  /\ Len(ymd) = 3 /\ Len(hms) = 3 /\ Len(sf) = 2
                  /\ IsAmPm(toks[3])
        inRange == /\ Y.ok /\ m.ok /\ d.ok /\ I.ok /\ M.ok /\ S.ok /\ f.ok
                   /\ m.val \in 1..12 /\ d.val \in 1..31 /\ I.val \in 1..12
                   /\ M.val \in 0..59 /\ S.val \in 0..61
    IN  IF shaped /\ inRange
        THEN DateTime(Y.val, m.val, d.val, Hour24(toks[3], I.val), M.val, S.val, f.val)
        ELSE DateTime(0, 0, 0, 0, 0, 0, 0))

\* utc_time.strftime("%Y-%m-%dT%H:%M:%S.%f")[:-3] + "Z"
DroneRfc3339(utc_time) ==
    LET text == StrftimeSeconds(utc_time) \o <<".">> \o Fmt(utc_time.microsecond, 6)
    IN  PyStr(Take(text, Len(text) - 3) \o <<"Z">>)

\* convert_UTC(row): the text for Drone_Time(UTC+RFC3339), or the exception
\* that leaves the function (it has no try block)
convert_UTC(pst_time) ==
    IF pst_time.kind # "str" THEN Exc("TypeError")
    ELSE LET date == Strptime(pst_time.s)
             utc_time == AsTimezoneUtc("America/Los_Angeles", date.dt)
         IN  IF ~date.ok THEN Exc("ValueError")
             ELSE IF ~utc_time.ok THEN Exc("OverflowError")
             ELSE DroneRfc3339(utc_time.dt)

-----------------------------------------------------------------------------
(* Inputs the runs are started with *)

\* zone names handed to the scripts: the known zones and one that does not exist
ZoneNames == KnownZones \cup {"Mars/Olympus"}

\* field values the generated six-field timestamps are built from: daylight
\* saving gaps and overlaps (2024-03-10 02h, 2023-11-05 01h, 2099-11-01 01h),
\* carries into the next day, month and year, leap days, and days out of range
GenYears == {0, 23, 24, 99}
GenMonths == {2, 3, 11, 12}
GenDays == {1, 5, 10, 28, 29, 31}
GenHours == {1, 2, 16, 17}
GenSeconds == {Chars("22"), Chars("22.316")}

SixFields(y, m, d, h, mi, sec) ==
    Fmt(y, 2) \o <<":">> \o Fmt(m, 2) \o <<":">> \o Fmt(d, 2) \o <<":">>
    \o Fmt(h, 2) \o <<":">> \o Fmt(mi, 2) \o <<":">> \o sec

DateInputs ==
    {SixFields(y, m, d, h, 39, sec) :
        y \in GenYears, m \in GenMonths, d \in GenDays, h \in GenHours,
        sec \in GenSeconds}

\* digits the generated fractions are made of
FracAlphabet == {"0", "9"}

RECURSIVE FracStrings(_)
\* every run of exactly n fractional digits
FracStrings(n) ==
    IF n = 0 THEN {<<>>}
    ELSE {<<c>> \o t : c \in FracAlphabet, t \in FracStrings(n - 1)}

\* every run of at most MaxFrac fractional digits
Fractions == UNION {FracStrings(n) : n \in 0..MaxFrac}

\* a second before the end of a minute, and of a year, with each fraction
FracInputs ==
    {SixFields(23, 11, 1, 17, 39, Chars("59.") \o f) : f \in Fractions}
    \cup {SixFields(23, 12, 31, 23, 59, Chars("59.") \o f) : f \in Fractions}

\* texts that are not a plain six-field timestamp
OddInputs ==
    { Chars(""), Chars("bad:data:string"), Chars("23:11:01:17:39"),
      Chars("23:11:01:17:39:22:00"), Chars("23:11:01:17:39:"),
      Chars("23:11:01:17:39:22.3x"), Chars("23:11:01:17:39:22.-1"),
      Chars("23:11:01:17:39:22.1_2"), Chars("23:11:01:17:39:22.5.5"),
      Chars("23:11:01:17:39:60"), Chars("23:11:01:17:60:22"),
      Chars("23:11:01:24:39:22"), Chars("23:13:01:17:39:22"),
      Chars("-1:11:01:17:39:22"), Chars("-1:11:01:17:39:22.316"),
      Chars("100:01:01:00:00:00"), Chars("100:07:01:12:00:00.5"),
      Chars("7999:12:31:17:39:22"), Chars("-2000:01:01:00:00:00"),
      Chars("2_3:11:01:17:39:22"), Chars(" 23:11:01:17:39:22"),
      Chars("+23:11:01:17:39:22"), Chars("x3:11:01:17:39:22"),
      Chars("23:11:01:17:39:22.316Z") }

\* values passed as raw_ts: texts, None, and numbers (0 is falsy, 5 is not)
RawValues ==
    {PyStr(s) : s \in DateInputs \cup FracInputs \cup OddInputs}
    \cup {None, NonStr("zero"), NonStr("int")}

\* lines of an anemometer log: blank, whitespace only, a full reading, a
\* reading whose timestamp is malformed, a short reading
LineSamples ==
    { Chars("\n"), Chars("  \n"),
      Chars("23:11:01:17:39:22.316 SN150 SN151 U -00.90 V -00.21 T  19.78 Battery% 100 BATTV  4.16 BATTC  0.000\n"),
      Chars("bad:data:string U 1.5\n"),
      Chars("23:11:01:17:39:22 U 1.5\n") }

\* every sequence of at most n members of S
SeqsUpTo(S, n) == UNION {[1..k -> S] : k \in 0..n}

RECURSIVE JoinTokens(_)
\* the tokens of a line, a blank before each
JoinTokens(tokens) ==
    IF tokens = <<>> THEN <<>>
    ELSE <<" ">> \o Chars(Head(tokens)) \o JoinTokens(Tail(tokens))

\* lines for parse_line alone: a blank line, and a timestamp followed by at
\* most MaxTokens tokens: known keys, a number, a word, an SN item
ScanLines ==
    {Chars("\n")}
    \cup {Chars("23:11:01:17:39:22") \o JoinTokens(tokens) \o Chars("\n") :
            tokens \in SeqsUpTo({"U", "V", "Battery%", "1.5", "x", "SN150"}, MaxTokens)}

\* input files of at most MaxLines lines
InputFiles == SeqsUpTo(LineSamples, MaxLines)

\* a file left at output_path by an earlier run
OldFile == [exists |-> TRUE, header |-> <<"old">>, data |-> <<>>]

\* values of the column Drone_Time(PST): texts, and the NaN of a missing cell
DroneSamples ==
    { PyStr(Chars("2023-11-01 05:39:22.316000 PM")),
      PyStr(Chars("2023-12-31 11:59:59.999999 PM")),
      PyStr(Chars("2024-03-10 02:30:00.5 AM")),
      PyStr(Chars("2023-11-01 5:39:22 PM")),
      NonStr("float") }

\* one drone time with each fraction, and with a fraction of seven digits
DroneFracSamples ==
    {PyStr(Chars("2023-12-31 11:59:59.") \o f \o Chars(" PM")) : f \in Fractions}
    \cup {PyStr(Chars("2023-12-31 11:59:59.9999999 PM"))}

\* raw timestamps on both sides of a spring-forward gap, of a fall-back overlap,
\* of a year's end and of a second
SortedStamps ==
    { Chars("24:03:10:01:59:59"), Chars("24:03:10:02:00:00"),
      Chars("24:03:10:02:30:00.5"), Chars("24:03:10:02:59:59.999"),
      Chars("24:03:10:03:00:00"), Chars("24:03:10:03:30:00"),
      Chars("23:11:05:00:59:59"), Chars("23:11:05:01:00:00"),
      Chars("23:11:05:01:59:59.5"), Chars("23:11:05:02:00:00"),
      Chars("23:12:31:23:59:59.999"), Chars("24:01:01:00:00:00"),
      Chars("23:11:01:17:39:22"), Chars("23:11:01:17:39:22.316"),
      Chars("23:11:01:17:39:22.9") }

\* one anemometer timestamp and one drone time for a run of both cleaning
\* scripts: the same second with and without a fraction, other seconds
PipelineStamps ==
    { Chars("23:11:01:17:39:22"), Chars("23:11:01:17:39:22.000"),
      Chars("23:11:01:17:39:22.316"), Chars("23:11:01:17:39:22.3164"),
      Chars("23:11:01:17:39:22.9"), Chars("23:12:31:23:59:59"),
      Chars("23:12:31:23:59:59.999"), Chars("24:03:10:03:30:00") }

PipelineTimes ==
    { Chars("2023-11-01 05:39:22.000000 PM"), Chars("2023-11-01 05:39:22.316000 PM"),
      Chars("2023-11-01 05:39:22.3164 PM"), Chars("2023-11-01 05:39:22.9 PM"),
      Chars("2023-11-01 05:39:23.0 PM"), Chars("2023-12-31 11:59:59.0 PM"),
      Chars("2023-12-31 11:59:59.999 PM"), Chars("2024-03-10 03:30:00.0 AM") }

\* a log line that carries a raw timestamp and one reading
StampLine(stamp) == stamp \o Chars(" U 1.5\n")

\* input files of two stamped lines, in either order
StampFiles == {<<StampLine(a), StampLine(b)>> : a, b \in SortedStamps}

\* data frames of at most MaxRows rows, and one-row frames with each fraction
DroneFrames ==
    SeqsUpTo(DroneSamples, MaxRows) \cup {<<x>> : x \in DroneFracSamples}

\* U and V cells that hold a number: every component of magnitude 0, 1 or 2,
\* the zero also as the anemometer prints a small negative reading
NumberCells ==
    {PyStr(Chars(c)) : c \in {"-2", "-1", "-0.0", "0", "1", "2"}}

\* rows of a vector input: numbers, text that is no number, a missing cell
VectorRows ==
    [U : NumberCells, V : NumberCells]
    \cup { [U |-> PyStr(Chars("abc")), V |-> PyStr(Chars("1"))],
           [U |-> PyStr(Chars("2")), V |-> PyStr(Chars(""))],
           [U |-> PyStr(Chars("0")), V |-> None] }

\* rows picked for the files of more than one row
VectorSamples ==
    { [U |-> PyStr(Chars("1")), V |-> PyStr(Chars("0"))],
      [U |-> PyStr(Chars("0")), V |-> PyStr(Chars("0"))],
      [U |-> PyStr(Chars("abc")), V |-> PyStr(Chars("1"))],
      [U |-> PyStr(Chars("0")), V |-> None] }

\* vector inputs: every one-row file, and the files of at most MaxRows samples
VectorFiles ==
    {<<r>> : r \in VectorRows} \cup SeqsUpTo(VectorSamples, MaxRows)

\* the instants the two series of an alignment are drawn from
Instants ==
    {"2023-11-02T00:39:22Z", "2023-11-02T00:39:23Z", "2023-11-02T00:39:24Z"}

\* a file whose U and V columns pandas reads as numbers
IsNumericFile(f) ==
    \A i \in 1..Len(f) : FloatCell(f[i].U).ok /\ FloatCell(f[i].V).ok

-----------------------------------------------------------------------------
(* Database loader: load_measurements.py *)

\* row.get(key): None when the row has no such key
Get(row, key) == IF key \in DOMAIN row THEN row[key] ELSE None

\* empty_to_none with no strip(): only the empty string becomes None
empty_to_none_unstripped(value) ==
    IF value = None THEN None
    ELSE IF value.kind = "str" /\ value.s = <<>> THEN None
    ELSE value

\* empty_to_none(value)
empty_to_none(value) ==
    IF value = None THEN None
    ELSE IF value.kind = "str" /\ Strip(value.s) = <<>> THEN None
    ELSE value

\* the columns the docstring of load_anemometer_csv expects
AnemometerColumns ==
    <<"raw_ts", "ts", "U", "V", "T", "BatteryPct", "BattV", "BattC",
      "VectorMag", "VectorDir">>

\* the keys load_anemometer_csv reads, in the order of its params
AnemometerKeys ==
    <<"ts", "raw_ts", "U", "V", "T", "BatteryPct", "BattV", "BattC",
      "VectorMag", "VectorDir">>

\* the columns the docstring of load_drone_csv expects
DroneColumns ==
    <<"CUSTOM.updateTime [local]", "WEATHER.windDirection",
      "WEATHER.windRelativeDirection", "WEATHER.windSpeed [MPH]",
      "WEATHER.maxWindSpeed [MPH]", "WEATHER.windStrength",
      "WEATHER.isFacingWind", "WEATHER.isFlyingIntoWind", "Drone_Time(PST)",
      "Drone_Time(UTC+RFC3339)", "Drone_Direction">>

\* the keys load_drone_csv reads, in the order of its params
DroneKeys ==
    <<"Drone_Time(UTC+RFC3339)", "Drone_Time(PST)", "CUSTOM.updateTime [local]",
      "WEATHER.windDirection", "WEATHER.windRelativeDirection",
      "WEATHER.windSpeed [MPH]", "WEATHER.maxWindSpeed [MPH]",
      "WEATHER.windStrength", "WEATHER.isFacingWind",
      "WEATHER.isFlyingIntoWind", "Drone_Direction_Deg">>

\* the columns of the INSERT statement, in the order of its placeholders
AnemometerInsert ==
    <<"ts_utc", "raw_ts", "u", "v", "temperature_c", "battery_pct", "batt_v",
      "batt_c", "vector_mag", "vector_dir_deg">>

DroneInsert ==
    <<"drone_time_utc", "drone_time_pst", "update_time_local_raw",
      "wind_direction", "wind_relative_direction", "wind_speed_mph",
      "max_wind_speed_mph", "wind_strength", "is_facing_wind",
      "is_flying_into_wind", "drone_direction_deg">>

\* params of one row: empty_to_none(row.get(key)) for every key
Params(row, keys) == [k \in 1..Len(keys) |-> empty_to_none(Get(row, keys[k]))]

\* len(batch) > batch_size, a flush one row late
BatchOverfull(b, size) == Len(b) > size

\* len(batch) >= batch_size
BatchFull(b, size) == Len(b) >= size

\* execute_batch(cur, insert_sql, batch) and connection.commit()
Flush(b, columns) ==
    << [op |-> "execute_batch", columns |-> columns, argslist |-> b],
       [op |-> "commit"] >>

\* Rows as csv.DictReader yields them under a header: every cell a text that
\* tells its column, every cell empty, every cell blank, every second cell
\* empty, and a line with three cells only (the others are None)
CsvRowKinds == {"full", "empty", "blank", "mixed", "short"}

CsvRow(header, kind) ==
    [c \in {header[k] : k \in 1..Len(header)} |->
        LET k == CHOOSE n \in 1..Len(header) : header[n] = c
        IN  CASE kind = "full" -> PyStr(Chars(c))
              [] kind = "empty" -> EmptyStr
              [] kind = "blank" -> PyStr(IF k % 2 = 0 THEN <<" ">> ELSE <<" ", "\t">>)
              [] kind = "mixed" -> IF k % 2 = 0 THEN EmptyStr ELSE PyStr(Chars(c))
              [] kind = "short" -> IF k <= 3 THEN PyStr(Chars(c)) ELSE None]

\* files under the expected header, and under a header without its last two
\* columns
CsvFiles(columns) ==
    {[i \in 1..Len(kinds) |-> CsvRow(header, kinds[i])] :
        header \in {columns, Take(columns, Len(columns) - 2)},
        kinds \in SeqsUpTo(CsvRowKinds, MaxRows)}

-----------------------------------------------------------------------------
(* The runs *)

NotRun == [kind |-> "unset", s |-> <<>>]

NoFile == [exists |-> FALSE, header |-> <<>>, data |-> <<>>]

\* what every variable of a script holds while another script runs
IdleParse ==
    /\ raw_ts = None /\ out_v1 = NotRun /\ out_v2 = NotRun /\ tz_v2 = ""
    /\ out_again = NotRun

IdleVector ==
    /\ ame = <<>> /\ dji = <<>> /\ math_data = <<>> /\ vector_output = <<>>
    /\ matches = <<>> /\ printed = <<>> /\ swapped = NotRun

IdleLoader ==
    /\ batch_size = 1000 /\ batch = <<>> /\ db = <<>>

IdleConvert ==
    /\ keep_sn = TRUE /\ lines = <<>> /\ index = 0 /\ rows = <<>>
    /\ out_file = NoFile /\ exit_code = -1

IdleDrone ==
    /\ df = <<>> /\ df_index = 0 /\ df_utc = <<>>

\* A caller, as the unit tests are, of both parse_timestamp functions
InitParse ==
    /\ script = "parse_timestamp"
    /\ pc = "call_v1"
    /\ raw_ts \in RawValues
    /\ assume_tz_name \in ZoneNames
    /\ out_v1 = NotRun /\ out_v2 = NotRun /\ tz_v2 = "" /\ out_again = NotRun
    /\ raised = ""
    /\ IdleConvert /\ IdleDrone /\ IdleVector /\ IdleLoader /\ scan = None

\* got = convert_anemometer.parse_timestamp(raw_ts, assume_tz_name)
CallParseV1 ==
    /\ script = "parse_timestamp" /\ pc = "call_v1"
    /\ LET got == parse_timestamp(raw_ts, assume_tz_name)
       IN  IF got.kind = "exc"
           THEN /\ raised' = got.s /\ pc' = "raised" /\ out_v1' = out_v1
           ELSE /\ out_v1' = got /\ pc' = "call_v2" /\ raised' = raised
    /\ UNCHANGED <<scan, loaderVars, vectorVars, out_again, script, raw_ts, assume_tz_name, out_v2, tz_v2, keep_sn, lines,
                   index, rows, out_file, exit_code, df, df_index, df_utc>>

\* got = convert_anemometer_v2.parse_timestamp(raw_ts, tz), for any zone name tz
CallParseV2 ==
    /\ script = "parse_timestamp" /\ pc = "call_v2"
    /\ tz_v2' \in ZoneNames
    /\ LET got == parse_timestamp_v2(raw_ts, tz_v2')
       IN  IF got.kind = "exc"
           THEN /\ raised' = got.s /\ pc' = "raised" /\ out_v2' = out_v2
           ELSE /\ out_v2' = got /\ pc' = "done" /\ raised' = raised
    /\ UNCHANGED <<scan, loaderVars, vectorVars, out_again, script, raw_ts, assume_tz_name, out_v1, keep_sn, lines,
                   index, rows, out_file, exit_code, df, df_index, df_utc>>

\* again = convert_anemometer_v2.parse_timestamp(out_v1, tz): the canonical
\* text of v1 read once more as a timestamp that is already UTC
ReparseV2 ==
    /\ script = "parse_timestamp" /\ pc = "done"
    /\ LET got == parse_timestamp_v2(out_v1, tz_v2)
       IN  IF got.kind = "exc"
           THEN /\ raised' = got.s /\ pc' = "raised" /\ out_again' = out_again
           ELSE /\ out_again' = got /\ pc' = "reparsed" /\ raised' = raised
    /\ UNCHANGED <<scan, loaderVars, vectorVars, script, raw_ts, assume_tz_name, out_v1, out_v2,
                   tz_v2, keep_sn, lines, index, rows, out_file, exit_code, df,
                   df_index, df_utc>>

NextParse == CallParseV1 \/ CallParseV2 \/ ReparseV2

\* convert_anemometer.convert_file(input_path, output_path, assume_tz_name, keep_sn)
InitConvertV1 ==
    /\ script = "convert_anemometer"
    /\ pc = "read"
    /\ assume_tz_name = "America/Vancouver"
    /\ keep_sn \in BOOLEAN
    /\ lines \in InputFiles
    /\ index = 0 /\ rows = <<>>
    /\ out_file \in {NoFile, OldFile}
    /\ exit_code = -1 /\ raised = ""
    /\ IdleParse /\ IdleDrone /\ IdleVector /\ IdleLoader /\ scan = None

\* convert_anemometer_v2.convert_file(input_path, output_path, assume_tz_name)
InitConvertV2 ==
    /\ script = "convert_anemometer_v2"
    /\ pc = "read"
    /\ assume_tz_name = "UTC"
    /\ keep_sn = FALSE
    /\ lines \in InputFiles
    /\ index = 0 /\ rows = <<>>
    /\ out_file \in {NoFile, OldFile}
    /\ exit_code = -1 /\ raised = ""
    /\ IdleParse /\ IdleDrone /\ IdleVector /\ IdleLoader /\ scan = None

\* One pass of "for line in f" in convert_anemometer.convert_file
ReadLineV1 ==
    /\ script = "convert_anemometer" /\ pc = "read" /\ index < Len(lines)
    /\ LET parsed == parse_line(lines[index + 1], assume_tz_name, keep_sn)
       IN  IF parsed.kind = "exc"
           THEN /\ raised' = parsed.s /\ pc' = "raised"
                /\ UNCHANGED <<rows, index>>
           ELSE /\ rows' = IF parsed # None THEN Append(rows, parsed) ELSE rows
                /\ index' = index + 1
                /\ UNCHANGED <<raised, pc>>
    /\ UNCHANGED <<scan, loaderVars, vectorVars, out_again, script, raw_ts, assume_tz_name, out_v1, out_v2, tz_v2, keep_sn,
                   lines, out_file, exit_code, df, df_index, df_utc>>

\* The end of the read loop without the check for an empty rows list
CheckRowsNoExit ==
    /\ script = "convert_anemometer" /\ pc = "read" /\ index = Len(lines)
    /\ pc' = "write"
    /\ UNCHANGED <<scan, loaderVars, vectorVars, out_again, script, raw_ts, assume_tz_name, out_v1, out_v2, tz_v2, keep_sn,
                   lines, index, rows, out_file, exit_code, raised, df, df_index,
                   df_utc>>

\* if len(rows) == 0: print(...); sys.exit(1)
CheckRowsV1 ==
    /\ script = "convert_anemometer" /\ pc = "read" /\ index = Len(lines)
    /\ IF Len(rows) = 0
       THEN /\ exit_code' = 1 /\ raised' = "SystemExit" /\ pc' = "exited"
       ELSE /\ pc' = "write" /\ UNCHANGED <<exit_code, raised>>
    /\ UNCHANGED <<scan, loaderVars, vectorVars, out_again, script, raw_ts, assume_tz_name, out_v1, out_v2, tz_v2, keep_sn,
                   lines, index, rows, out_file, df, df_index, df_utc>>

\* with open(output_path, "w") ...: the header and every row
WriteOutputV1 ==
    /\ script = "convert_anemometer" /\ pc = "write"
    /\ out_file' = WrittenFile(rows, Columns(keep_sn))
    /\ pc' = "done"
    /\ UNCHANGED <<scan, loaderVars, vectorVars, out_again, script, raw_ts, assume_tz_name, out_v1, out_v2, tz_v2, keep_sn,
                   lines, index, rows, exit_code, df, df_index, df_utc, raised>>

\* One pass of "for line in f" in convert_anemometer_v2.convert_file
ReadLineV2 ==
    /\ script = "convert_anemometer_v2" /\ pc = "read" /\ index < Len(lines)
    /\ LET parsed == parse_line_v2(lines[index + 1], assume_tz_name, FALSE)
       IN  IF parsed.kind = "exc"
           THEN /\ raised' = parsed.s /\ pc' = "raised"
                /\ UNCHANGED <<rows, index>>
           ELSE /\ rows' = IF parsed # None THEN Append(rows, parsed) ELSE rows
                /\ index' = index + 1
                /\ UNCHANGED <<raised, pc>>
    /\ UNCHANGED <<scan, loaderVars, vectorVars, out_again, script, raw_ts, assume_tz_name, out_v1, out_v2, tz_v2, keep_sn,
                   lines, out_file, exit_code, df, df_index, df_utc>>

\* v2 goes from the read loop straight to the with-block that writes
WriteOutputV2 ==
    /\ script = "convert_anemometer_v2" /\ pc = "read" /\ index = Len(lines)
    /\ out_file' = WrittenFile(rows, ColumnsV2)
    /\ pc' = "done"
    /\ UNCHANGED <<scan, loaderVars, vectorVars, out_again, script, raw_ts, assume_tz_name, out_v1, out_v2, tz_v2, keep_sn,
                   lines, index, rows, exit_code, df, df_index, df_utc, raised>>

\* convert_file of either converter on a file of two stamped lines
InitStampsV1 ==
    /\ script = "convert_anemometer"
    /\ pc = "read"
    /\ assume_tz_name \in {"America/Vancouver", "UTC", "Asia/Tokyo"}
    /\ keep_sn = TRUE
    /\ lines \in StampFiles
    /\ index = 0 /\ rows = <<>>
    /\ out_file = NoFile
    /\ exit_code = -1 /\ raised = ""
    /\ IdleParse /\ IdleDrone /\ IdleVector /\ IdleLoader /\ scan = None

InitStampsV2 ==
    /\ script = "convert_anemometer_v2"
    /\ pc = "read"
    /\ assume_tz_name = "UTC"
    /\ keep_sn = FALSE
    /\ lines \in StampFiles
    /\ index = 0 /\ rows = <<>>
    /\ out_file = NoFile
    /\ exit_code = -1 /\ raised = ""
    /\ IdleParse /\ IdleDrone /\ IdleVector /\ IdleLoader /\ scan = None

NextConvert ==
    ReadLineV1 \/ CheckRowsV1 \/ WriteOutputV1 \/ ReadLineV2 \/ WriteOutputV2

\* Clean_and_Timestamp.format_time(df_filtered), then main's to_csv
InitDrone ==
    /\ script = "Clean_and_Timestamp"
    /\ pc = "apply"
    /\ assume_tz_name = "America/Los_Angeles"
    /\ df \in DroneFrames
    /\ df_index = 0 /\ df_utc = <<>>
    /\ raised = ""
    /\ IdleParse /\ IdleVector /\ IdleLoader /\ scan = None
    /\ keep_sn = TRUE /\ lines = <<>> /\ index = 0 /\ rows = <<>>
    /\ out_file \in {NoFile, OldFile} /\ exit_code = -1

\* df_filtered.apply(convert_UTC, axis=1): one row
ApplyConvertUTC ==
    /\ script = "Clean_and_Timestamp" /\ pc = "apply" /\ df_index < Len(df)
    /\ LET rfc3339_utc == convert_UTC(df[df_index + 1])
       IN  IF rfc3339_utc.kind = "exc"
           THEN /\ raised' = rfc3339_utc.s /\ pc' = "raised"
                /\ UNCHANGED <<df_utc, df_index>>
           ELSE /\ df_utc' = Append(df_utc, rfc3339_utc)
                /\ df_index' = df_index + 1
                /\ UNCHANGED <<raised, pc>>
    /\ UNCHANGED <<scan, loaderVars, vectorVars, out_again, script, raw_ts, assume_tz_name, out_v1, out_v2, tz_v2, keep_sn,
                   lines, index, rows, out_file, exit_code, df>>

\* format_time returns and main writes CLEAN_COMBINED.csv
DroneToCsv ==
    /\ script = "Clean_and_Timestamp" /\ pc = "apply" /\ df_index = Len(df)
    /\ out_file' = [exists |-> TRUE,
                    header |-> <<"Drone_Time(PST)", "Drone_Time(UTC+RFC3339)">>,
                    data |-> [i \in 1..Len(df) |-> <<df[i], df_utc[i]>>]]
    /\ pc' = "done"
    /\ UNCHANGED <<scan, loaderVars, vectorVars, out_again, script, raw_ts, assume_tz_name, out_v1, out_v2, tz_v2, keep_sn,
                   lines, index, rows, exit_code, df, df_index, df_utc, raised>>

NextDrone == ApplyConvertUTC \/ DroneToCsv

\* main of vector_math_anemo.py and of compare.py, after get_csv_file
InitVectorMain ==
    /\ script \in {"vector_math_anemo", "compare"}
    /\ pc = "resolve"
    /\ ame \in VectorFiles
    /\ dji = <<>> /\ math_data = <<>> /\ vector_output = <<>>
    /\ matches = <<>> /\ printed = <<>> /\ swapped = NotRun
    /\ assume_tz_name = "" /\ raised = ""
    /\ IdleParse /\ IdleConvert /\ IdleDrone /\ IdleLoader /\ scan = None

\* one pass of the first "for ame_line in ame" of main
ResolveLine ==
    /\ script \in {"vector_math_anemo", "compare"}
    /\ pc = "resolve" /\ Len(math_data) < Len(ame)
    /\ LET ame_line == ame[Len(math_data) + 1]
           u == FloatCell(ame_line.U)
           v == FloatCell(ame_line.V)
       IN  IF ~u.ok \/ ~v.ok
           THEN /\ printed' = Append(printed, <<"Invalid data in line:", ame_line>>)
                /\ math_data' = Append(math_data, <<None, None>>)
           ELSE /\ math_data' = Append(math_data,
                                      IF script = "compare"
                                      THEN compare_vector_math(u, v)
                                      ELSE vector_math(u, v))
                /\ printed' = printed
    /\ UNCHANGED <<scan, loaderVars, script, pc, raw_ts, assume_tz_name, out_v1, out_v2, tz_v2,
                   out_again, keep_sn, lines, index, rows, out_file, exit_code, df,
                   df_index, df_utc, raised, ame, dji, vector_output, matches, swapped>>

\* the with-block of main: the header, and a row for every line that passes
\* the float check; a line that fails it meets "continue". Each written row
\* remembers the input line it came from.
WriteVectors ==
    /\ script \in {"vector_math_anemo", "compare"}
    /\ pc = "resolve" /\ Len(math_data) = Len(ame)
    /\ LET passes(i) == FloatCell(ame[i].U).ok /\ FloatCell(ame[i].V).ok
           kept == SelectSeq([i \in 1..Len(ame) |-> i], passes)
       IN  vector_output' =
             [header |-> <<"U", "V", "Speed", "Direction">>,
              data |-> [k \in 1..Len(kept) |->
                          [line |-> kept[k],
                           U |-> FloatCell(ame[kept[k]].U),
                           V |-> FloatCell(ame[kept[k]].V),
                           Speed |-> math_data[kept[k]][1],
                           Direction |-> math_data[kept[k]][2]]]]
    /\ pc' = "done"
    /\ UNCHANGED <<scan, loaderVars, script, raw_ts, assume_tz_name, out_v1, out_v2, tz_v2,
                   out_again, keep_sn, lines, index, rows, out_file, exit_code, df,
                   df_index, df_utc, raised, ame, dji, math_data, matches, printed,
                   swapped>>

\* main of Components_to_Vector.py, after pd.read_csv of numeric columns
InitComponents ==
    /\ script = "Components_to_Vector"
    /\ pc = "compute"
    /\ ame \in {f \in VectorFiles : IsNumericFile(f)}
    /\ dji = <<>> /\ math_data = <<>> /\ vector_output = <<>>
    /\ matches = <<>> /\ printed = <<>> /\ swapped = NotRun
    /\ assume_tz_name = "" /\ raised = ""
    /\ IdleParse /\ IdleConvert /\ IdleDrone /\ IdleLoader /\ scan = None

\* df["VectorMag"] = ..., df["VectorDir"] = ..., df.to_csv(csv_file)
ComputeVectors ==
    /\ script = "Components_to_Vector" /\ pc = "compute"
    /\ vector_output' =
         [header |-> <<"U", "V", "VectorMag", "VectorDir">>,
          data |-> [i \in 1..Len(ame) |->
                      LET U == FloatCell(ame[i].U)
                          V == FloatCell(ame[i].V)
                      IN  [line |-> i, U |-> U, V |-> V,
                           VectorMag |-> Components_to_Vector(U, V)[1],
                           VectorDir |-> Components_to_Vector(U, V)[2]]]]
    /\ pc' = "done"
    /\ UNCHANGED <<scan, loaderVars, script, raw_ts, assume_tz_name, out_v1, out_v2, tz_v2,
                   out_again, keep_sn, lines, index, rows, out_file, exit_code, df,
                   df_index, df_utc, raised, ame, dji, math_data, matches, printed,
                   swapped>>

NextVector == ResolveLine \/ WriteVectors \/ ComputeVectors

\* the three vector scripts
SpecVector == (InitVectorMain \/ InitComponents) /\ [][NextVector]_vars

\* test(ame, dji) on two series of at most MaxRows rows; a timestamp may occur
\* more than once in a series
InitTest ==
    /\ script = "test"
    /\ pc = "check"
    /\ ame \in SeqsUpTo([ts : Instants], MaxRows)
    /\ dji \in SeqsUpTo([TimeStamp : Instants], MaxRows)
    /\ matches = <<>> /\ printed = <<>> /\ swapped = NotRun
    /\ math_data = <<>> /\ vector_output = <<>>
    /\ assume_tz_name = "" /\ raised = ""
    /\ IdleParse /\ IdleConvert /\ IdleDrone /\ IdleLoader /\ scan = None

\* one pass of "for ame_line in ame": the whole loop over dji, then the
\* "Completed" line. A matched pair is (ame_line, dji_line), each record named
\* by its position in its series.
CheckAmeLine ==
    /\ script \in {"test", "pipeline"} /\ pc = "check" /\ index < Len(ame)
    /\ LET i == index + 1
           same(j) == ame[i].ts = dji[j].TimeStamp
           hits == SelectSeq([j \in 1..Len(dji) |-> j], same)
       IN  /\ matches' = matches \o [k \in 1..Len(hits) |-> <<i, hits[k]>>]
           /\ printed' =
                printed
                \o [n \in 1..(3 * Len(hits)) |->
                       CASE n % 3 = 1 -> <<"Match found:">>
                         [] n % 3 = 2 -> <<"Anemometer:", i>>
                         [] n % 3 = 0 -> <<"DJI:", hits[n \div 3]>>]
                \o << <<"Completed checking ame line:", ame[i].ts>> >>
    /\ index' = index + 1
    /\ UNCHANGED <<scan, loaderVars, script, pc, raw_ts, assume_tz_name, out_v1, out_v2, tz_v2,
                   out_again, keep_sn, lines, rows, out_file, exit_code, df,
                   df_index, df_utc, raised, ame, dji, math_data, vector_output,
                   swapped>>

\* print(matches), and the function returns
PrintMatches ==
    /\ script \in {"test", "pipeline"} /\ pc = "check" /\ index = Len(ame)
    /\ printed' = Append(printed, <<"matches", matches>>)
    /\ pc' = "done"
    /\ UNCHANGED <<scan, loaderVars, script, raw_ts, assume_tz_name, out_v1, out_v2, tz_v2,
                   out_again, keep_sn, lines, index, rows, out_file, exit_code, df,
                   df_index, df_utc, raised, ame, dji, math_data, vector_output,
                   matches, swapped>>

\* test(first, second) as one call, for rows of any shape: row["ts"] and
\* row["TimeStamp"] are a KeyError on a row without that key, and the
\* exception leaves the function before print(matches)
test(first, second) ==
    LET noTs(i) == "ts" \notin DOMAIN first[i]
        noStamp(j) == "TimeStamp" \notin DOMAIN second[j]
        pairs == {<<i, j>> \in (1..Len(first)) \X (1..Len(second)) :
                     first[i].ts = second[j].TimeStamp}
    IN  IF \/ \E i \in 1..Len(first) : noTs(i)
           \/ first # <<>> /\ \E j \in 1..Len(second) : noStamp(j)
        THEN Exc("KeyError")
        ELSE [kind |-> "printed", s |-> pairs]

\* the same two series handed over in the other order: test(dji, ame)
CallSwapped ==
    /\ script = "test" /\ pc = "done"
    /\ swapped' = test(dji, ame)
    /\ pc' = "swapped"
    /\ UNCHANGED <<scan, loaderVars, script, raw_ts, assume_tz_name, out_v1, out_v2, tz_v2,
                   out_again, keep_sn, lines, index, rows, out_file, exit_code, df,
                   df_index, df_utc, raised, ame, dji, math_data, vector_output,
                   matches, printed>>

NextTest == CheckAmeLine \/ PrintMatches \/ CallSwapped

\* the aligner
SpecTest == InitTest /\ [][NextTest]_vars

\* The scripts run one after the other on one reading of each source: the
\* anemometer timestamp through convert_anemometer.parse_timestamp, the drone
\* time through convert_UTC, and the two cleaned records handed to
\* test(ame, dji), the drone's UTC text as the record's TimeStamp.
InitPipeline ==
    /\ script = "pipeline"
    /\ pc = "normalize"
    /\ raw_ts \in {PyStr(s) : s \in PipelineStamps}
    /\ assume_tz_name \in {"America/Vancouver", "America/Los_Angeles"}
    /\ df \in {<<PyStr(s)>> : s \in PipelineTimes}
    /\ out_v1 = NotRun /\ out_v2 = NotRun /\ tz_v2 = "" /\ out_again = NotRun
    /\ df_index = 0 /\ df_utc = <<>>
    /\ raised = ""
    /\ IdleConvert /\ IdleVector /\ IdleLoader /\ scan = None

\* both cleaning scripts, and get_csv_file of their output
NormalizeBoth ==
    /\ script = "pipeline" /\ pc = "normalize"
    /\ LET ts == parse_timestamp(raw_ts, assume_tz_name)
           rfc3339_utc == convert_UTC(df[1])
       IN  /\ ts.kind = "str" /\ rfc3339_utc.kind = "str"
           /\ out_v1' = ts
           /\ df_utc' = <<rfc3339_utc>>
           /\ ame' = <<[ts |-> Str(ts.s)]>>
           /\ dji' = <<[TimeStamp |-> Str(rfc3339_utc.s)]>>
    /\ df_index' = 1
    /\ pc' = "check"
    /\ UNCHANGED <<scan, loaderVars, script, raw_ts, assume_tz_name, out_v2, tz_v2, out_again,
                   keep_sn, lines, index, rows, out_file, exit_code, df, raised,
                   math_data, vector_output, matches, printed, swapped>>

NextPipeline == NormalizeBoth \/ CheckAmeLine \/ PrintMatches

\* normalizers and aligner together
SpecPipeline == InitPipeline /\ [][NextPipeline]_vars

\* load_anemometer_csv or load_drone_csv on an open connection
InitLoader ==
    /\ script \in {"load_anemometer_csv", "load_drone_csv"}
    /\ pc = "rows"
    /\ batch_size \in 1..MaxBatch
    /\ batch = <<>> /\ db = <<>> /\ scan = None
    /\ IF script = "load_anemometer_csv"
       THEN ame \in CsvFiles(AnemometerColumns) /\ dji = <<>>
       ELSE dji \in CsvFiles(DroneColumns) /\ ame = <<>>
    /\ math_data = <<>> /\ vector_output = <<>>
    /\ matches = <<>> /\ printed = <<>> /\ swapped = NotRun
    /\ assume_tz_name = "" /\ raised = ""
    /\ IdleParse /\ IdleConvert /\ IdleDrone

\* the rows csv.DictReader yields in this run
LoaderRows == IF script = "load_anemometer_csv" THEN ame ELSE dji

LoaderKeys == IF script = "load_anemometer_csv" THEN AnemometerKeys ELSE DroneKeys

LoaderInsert ==
    IF script = "load_anemometer_csv" THEN AnemometerInsert ELSE DroneInsert

\* one pass of "for row in reader"; index is processed_rows
LoadRow ==
    /\ script \in {"load_anemometer_csv", "load_drone_csv"}
    /\ pc = "rows" /\ index < Len(LoaderRows)
    /\ index' = index + 1
    /\ LET params == Params(LoaderRows[index + 1], LoaderKeys)
           appended == Append(batch, params)
       IN  IF BatchFull(appended, batch_size)
           THEN /\ db' = db \o Flush(appended, LoaderInsert)
                /\ batch' = <<>>
           ELSE /\ batch' = appended
                /\ db' = db
    /\ printed' = IF (index + 1) % 5000 = 0
                  THEN Append(printed, <<"rows processed so far...", index + 1>>)
                  ELSE printed
    /\ UNCHANGED <<scan, script, pc, raw_ts, assume_tz_name, out_v1, out_v2, tz_v2,
                   out_again, keep_sn, lines, rows, out_file, exit_code, df,
                   df_index, df_utc, raised, ame, dji, math_data, vector_output,
                   matches, swapped, batch_size>>

\* after the loop: "if batch:", the last print, and the function returns
FinishLoad ==
    /\ script \in {"load_anemometer_csv", "load_drone_csv"}
    /\ pc = "rows" /\ index = Len(LoaderRows)
    /\ db' = IF batch # <<>> THEN db \o Flush(batch, LoaderInsert) ELSE db
    /\ printed' = Append(printed, <<"Finished Insert", index>>)
    /\ pc' = "done"
    /\ UNCHANGED <<scan, script, raw_ts, assume_tz_name, out_v1, out_v2, tz_v2,
                   out_again, keep_sn, lines, index, rows, out_file, exit_code, df,
                   df_index, df_utc, raised, ame, dji, math_data, vector_output,
                   matches, swapped, batch_size, batch>>

NextLoader == LoadRow \/ FinishLoad

\* the database loader
SpecLoader == InitLoader /\ [][NextLoader]_vars

\* parse_line of either converter on one line, the key/value loop one pass
\* at a time
InitScan ==
    /\ script \in {"parse_line", "parse_line_v2"}
    /\ pc = "start"
    /\ lines \in {<<line>> : line \in ScanLines}
    /\ keep_sn \in BOOLEAN
    /\ assume_tz_name = "America/Vancouver"
    /\ scan = None
    /\ index = 0 /\ rows = <<>> /\ out_file = NoFile /\ exit_code = -1
    /\ raised = ""
    /\ IdleParse /\ IdleDrone /\ IdleVector /\ IdleLoader

\* parse_line up to the key/value loop: strip, split, the timestamp, the row
\* template and, in convert_anemometer, the SN loop
BeginScan ==
    /\ script \in {"parse_line", "parse_line_v2"} /\ pc = "start"
    /\ LET parts == SplitWs(Strip(lines[1]))
           ts == IF script = "parse_line"
                 THEN parse_timestamp(PyStr(parts[1]), assume_tz_name)
                 ELSE parse_timestamp_v2(PyStr(parts[1]), assume_tz_name)
           v1 == [kind |-> "dict", raw_ts |-> PyStr(parts[1]), ts |-> TsCell(ts),
                  sn1 |-> EmptyStr, sn2 |-> EmptyStr, U |-> EmptyStr,
                  V |-> EmptyStr, T |-> EmptyStr, BatteryPct |-> EmptyStr,
                  BattV |-> EmptyStr, BattC |-> EmptyStr]
           v2 == [kind |-> "dict", raw_ts |-> PyStr(parts[1]), ts |-> TsCell(ts),
                  U |-> EmptyStr, V |-> EmptyStr, T |-> EmptyStr,
                  BatteryPct |-> EmptyStr, BattV |-> EmptyStr, BattC |-> EmptyStr]
           sn == ScanSn(parts, [index |-> 2, row |-> v1, sn_count |-> 0], keep_sn)
       IN  IF Strip(lines[1]) = <<>> \/ parts = <<>>
           THEN /\ scan' = [index |-> 1, row |-> None, current_key |-> ""]
                /\ pc' = "done" /\ raised' = raised
           ELSE IF ts.kind = "exc"
           THEN /\ raised' = ts.s /\ pc' = "raised" /\ scan' = scan
           ELSE /\ scan' = IF script = "parse_line"
                           THEN [index |-> sn.index, row |-> sn.row, current_key |-> ""]
                           ELSE [index |-> 2, row |-> v2, current_key |-> ""]
                /\ pc' = "pairs" /\ raised' = raised
    /\ UNCHANGED <<loaderVars, vectorVars, out_again, script, raw_ts,
                   assume_tz_name, out_v1, out_v2, tz_v2, keep_sn, lines, index,
                   rows, out_file, exit_code, df, df_index, df_utc>>

\* one pass of "while index < len(parts)"
ScanItem ==
    /\ script \in {"parse_line", "parse_line_v2"} /\ pc = "pairs"
    /\ scan.index <= Len(SplitWs(Strip(lines[1])))
    /\ scan' = PairStep(SplitWs(Strip(lines[1])), scan)
    /\ UNCHANGED <<loaderVars, vectorVars, out_again, script, pc, raw_ts,
                   assume_tz_name, out_v1, out_v2, tz_v2, keep_sn, lines, index,
                   rows, out_file, exit_code, df, df_index, df_utc, raised>>

\* the loop ends: return row
ReturnRow ==
    /\ script \in {"parse_line", "parse_line_v2"} /\ pc = "pairs"
    /\ scan.index > Len(SplitWs(Strip(lines[1])))
    /\ pc' = "done"
    /\ UNCHANGED <<scan, loaderVars, vectorVars, out_again, script, raw_ts,
                   assume_tz_name, out_v1, out_v2, tz_v2, keep_sn, lines, index,
                   rows, out_file, exit_code, df, df_index, df_utc, raised>>

\* the line parser, token by token
SpecScan == InitScan /\ [][BeginScan \/ ScanItem \/ ReturnRow]_vars

\* the timestamp normalizer alone
SpecParse == InitParse /\ [][NextParse]_vars

\* the two anemometer converters, each on a whole input file
SpecConvert == (InitConvertV1 \/ InitConvertV2) /\ [][NextConvert]_vars

\* the two converters on files of two stamped lines, one zone per run
SpecStamps == (InitStampsV1 \/ InitStampsV2) /\ [][NextConvert]_vars

\* the drone cleaning script
SpecDrone == InitDrone /\ [][NextDrone]_vars

\* every timestamp producer: both parse_timestamp functions and convert_UTC
SpecTimestamps == (InitParse \/ InitDrone) /\ [][NextParse \/ NextDrone]_vars

\* every script, one per run
Init == InitParse \/ InitConvertV1 \/ InitConvertV2 \/ InitDrone

Next == NextParse \/ NextConvert \/ NextDrone

Spec == Init /\ [][Next]_vars

-----------------------------------------------------------------------------
(* Reading the texts the claims speak of, position by position *)

\* the number written by the n digits of s that start at position i
DigitsAt(s, i, n) ==
    LET F[k \in 0..n] == IF k = 0 THEN 0 ELSE 10 * F[k - 1] + DigitVal(s[i + k - 1])
    IN  F[n]

AllDigits(s, places) == \A i \in places : IsDigit(s[i])

\* YYYY-MM-DDTHH:MM:SSZ or YYYY-MM-DDTHH:MM:SS.mmmZ
IsCanonical(s) ==
    /\ Len(s) \in {20, 24}
    /\ AllDigits(s, {1, 2, 3, 4, 6, 7, 9, 10, 12, 13, 15, 16, 18, 19})
    /\ s[5] = "-" /\ s[8] = "-" /\ s[11] = "T" /\ s[14] = ":" /\ s[17] = ":"
    /\ s[Len(s)] = "Z"
    /\ Len(s) = 24 => s[20] = "." /\ AllDigits(s, {21, 22, 23})

\* the date and time a canonical text names, to the second
CanonDate(s) ==
    [year |-> DigitsAt(s, 1, 4), month |-> DigitsAt(s, 6, 2), day |-> DigitsAt(s, 9, 2),
     hour |-> DigitsAt(s, 12, 2), minute |-> DigitsAt(s, 15, 2),
     second |-> DigitsAt(s, 18, 2)]

\* the milliseconds a canonical text names
CanonMs(s) == IF Len(s) = 24 THEN DigitsAt(s, 21, 3) ELSE 0

\* a value is a text that splits on ":" into exactly six fields
HasSixFields(v) ==
    v.kind = "str" /\ Cardinality({i \in 1..Len(v.s) : v.s[i] = ":"}) = 5

\* YY:MM:DD:HH:MM:SS, two digits each, with an optional "." and digits
IsPlainRaw(s) ==
    /\ Len(s) >= 17
    /\ AllDigits(s, {1, 2, 4, 5, 7, 8, 10, 11, 13, 14, 16, 17})
    /\ \A i \in {3, 6, 9, 12, 15} : s[i] = ":"
    /\ Len(s) > 17 => s[18] = "." /\ AllDigits(s, 19..Len(s))

\* the local date and time a plain raw timestamp names, to the second
PlainDate(s) ==
    [year |-> 2000 + DigitsAt(s, 1, 2), month |-> DigitsAt(s, 4, 2),
     day |-> DigitsAt(s, 7, 2), hour |-> DigitsAt(s, 10, 2),
     minute |-> DigitsAt(s, 13, 2), second |-> DigitsAt(s, 16, 2)]

\* the fractional digits of a plain raw timestamp
PlainFraction(s) == Drop(s, 18)

IsRealDate(d) ==
    /\ d.month \in 1..12 /\ d.day >= 1 /\ d.day <= DaysInMonth(d.year, d.month)
    /\ d.hour <= 23 /\ d.minute <= 59 /\ d.second <= 59

\* a valid six-field raw timestamp
IsValidRaw(v) == v.kind = "str" /\ IsPlainRaw(v.s) /\ IsRealDate(PlainDate(v.s))

\* the call of the v1 parse_timestamp has returned
V1Returned == script = "parse_timestamp" /\ pc \in {"call_v2", "done"}

\* both calls have returned
BothReturned == script = "parse_timestamp" /\ pc = "done"

-----------------------------------------------------------------------------
(* Claims *)

\* C1: for every input value (a text, the empty text, a value that is no text)
\* and every zone name, both parse_timestamp functions return a canonical text
\* or None and never raise; they return None whenever the input does not split
\* on ":" into exactly six fields.
C1_NeverRaises ==
    script = "parse_timestamp" =>
        /\ raised = "" /\ pc # "raised"
        /\ V1Returned =>
              /\ out_v1 = None \/ (out_v1.kind = "str" /\ IsCanonical(out_v1.s))
              /\ ~HasSixFields(raw_ts) => out_v1 = None
        /\ BothReturned =>
              /\ out_v2 = None \/ (out_v2.kind = "str" /\ IsCanonical(out_v2.s))
              /\ ~HasSixFields(raw_ts) => out_v2 = None

\* C1 witness: "bad:data:string" went through both functions and gave None twice
C1_Witness ==
    /\ BothReturned
    /\ raw_ts = PyStr(Chars("bad:data:string"))
    /\ out_v1 = None /\ out_v2 = None /\ raised = ""

\* a line of the input file is blank when it holds nothing but whitespace
IsBlankLine(line) == \A i \in 1..Len(line) : IsSpace(line[i])

\* a row of the written file whose ts is empty
HasEmptyTs(file) == \E i \in 1..Len(file.data) : file.data[i]["ts"] = EmptyStr

ConvertRun == script \in {"convert_anemometer", "convert_anemometer_v2"}

\* C2 (as claimed): every row convert_file writes has a non-empty ts; a line
\* whose timestamp fails to parse is dropped, never written with an empty ts.
C2_NoEmptyTs ==
    (ConvertRun /\ pc = "done") => ~HasEmptyTs(out_file)

\* C3 (as claimed): convert_file, in both converters, ends in an error and not
\* in a written output file whenever no line yields a parsed timestamp.
C3_ErrorWhenNothingParsed ==
    (ConvertRun /\ pc = "done") => \E i \in 1..Len(rows) : rows[i].ts # EmptyStr

\* C4: convert_file of convert_anemometer.py, given an input with no non-blank
\* line, ends with SystemExit, status 1, before the output file is opened: the
\* output file is neither created nor changed.
C4_BlankInputExits ==
    (script = "convert_anemometer" /\ \A i \in 1..Len(lines) : IsBlankLine(lines[i])) =>
        /\ pc \in {"read", "exited"}
        /\ rows = <<>>
        /\ out_file \in {NoFile, OldFile}
        /\ pc = "exited" => exit_code = 1 /\ raised = "SystemExit"
        /\ pc = "read" => exit_code = -1 /\ raised = ""

\* C4 witness: a file of two whitespace lines was read to its end and the run
\* left through sys.exit(1) with no output file
C4_Witness ==
    /\ script = "convert_anemometer"
    /\ lines = <<Chars("\n"), Chars("  \n")>>
    /\ index = 2 /\ pc = "exited" /\ exit_code = 1 /\ out_file = NoFile

\* C5 (as claimed): a malformed timestamp in one record never aborts a
\* conversion run, in the anemometer convert_file and in the drone
\* format_time/convert_UTC: no exception leaves the run, and a run that ends has
\* processed every record.
C5_NoAbort ==
    /\ ConvertRun =>
          /\ raised \in {"", "SystemExit"}
          /\ pc = "done" => index = Len(lines)
    /\ script = "Clean_and_Timestamp" =>
          /\ raised = "" /\ pc # "raised"
          /\ pc = "done" => Len(df_utc) = Len(df)

\* the day after, and the day before, with the carry into month and year
NextDay(d) ==
    IF d.day < DaysInMonth(d.year, d.month) THEN [d EXCEPT !.day = @ + 1]
    ELSE IF d.month < 12 THEN [d EXCEPT !.month = @ + 1, !.day = 1]
    ELSE [d EXCEPT !.year = @ + 1, !.month = 1, !.day = 1]

PrevDay(d) ==
    IF d.day > 1 THEN [d EXCEPT !.day = @ - 1]
    ELSE IF d.month > 1
         THEN [d EXCEPT !.month = @ - 1, !.day = DaysInMonth(d.year, d.month - 1)]
    ELSE [d EXCEPT !.year = @ - 1, !.month = 12, !.day = 31]

\* the date and time h hours after d, for h in -23..23
HoursLater(d, h) ==
    IF d.hour + h >= 24 THEN NextDay([d EXCEPT !.hour = @ + h - 24])
    ELSE IF d.hour + h < 0 THEN PrevDay([d EXCEPT !.hour = @ + h + 24])
    ELSE [d EXCEPT !.hour = @ + h]

\* h, for a zone whose offset at local time d is minus h hours
HoursWest(name, d) == (0 - UtcOffset(name, d)) \div 3600

\* C6: for a valid six-field raw timestamp and a zone whose offset at that
\* local date and time is minus h hours, the v1 parse_timestamp returns the
\* instant h hours later, carried into the next day, month or year; and
\* 23:11:01:17:39:22.316 in America/Vancouver gives 2023-11-02T00:39:22.316Z.
C6_LocalToUtc ==
    (V1Returned /\ IsValidRaw(raw_ts) /\ ZoneInfoFound(assume_tz_name)) =>
        /\ out_v1.kind = "str"
        /\ IsCanonical(out_v1.s)
        /\ CanonDate(out_v1.s)
             = HoursLater(PlainDate(raw_ts.s),
                          HoursWest(assume_tz_name, PlainDate(raw_ts.s)))
        /\ (raw_ts.s = Chars("23:11:01:17:39:22.316")
              /\ assume_tz_name = "America/Vancouver")
             => Str(out_v1.s) = "2023-11-02T00:39:22.316Z"

\* C6 witness: the last evening of 2023 in Vancouver became the first morning of
\* 2024 in UTC
C6_Witness ==
    /\ V1Returned
    /\ raw_ts = PyStr(Chars("23:12:31:17:39:22.316"))
    /\ assume_tz_name = "America/Vancouver"
    /\ out_v1 = PyStr(Chars("2024-01-01T01:39:22.316Z"))

PacificZones == {"America/Vancouver", "America/Los_Angeles"}

\* day d is the n-th Sunday of month m of year y
IsNthSunday(y, m, d, n) == Weekday(y, m, d) = 6 /\ (d - 1) \div 7 = n - 1

\* from 2007: the hour the clocks skip, and the hour the clocks repeat
InSpringGap(d) ==
    d.year >= 2007 /\ d.month = 3 /\ IsNthSunday(d.year, 3, d.day, 2) /\ d.hour = 2

InAutumnOverlap(d) ==
    d.year >= 2007 /\ d.month = 11 /\ IsNthSunday(d.year, 11, d.day, 1) /\ d.hour = 1

\* a valid raw timestamp that names a skipped or a repeated Pacific wall time
AmbiguousOrMissing ==
    /\ V1Returned /\ IsValidRaw(raw_ts) /\ assume_tz_name \in PacificZones
    /\ InSpringGap(PlainDate(raw_ts.s)) \/ InAutumnOverlap(PlainDate(raw_ts.s))

YearField(v) == PyInt(Split(v.s, ":")[1])

\* C9 (as claimed): parse_timestamp reads the year field YY as 2000 + YY, and a
\* year field below 0 or above 99 never produces a canonical instant.
C9_YearRange ==
    (BothReturned /\ HasSixFields(raw_ts)) =>
        /\ out_v2.kind = "str" =>
              /\ YearField(raw_ts).ok
              /\ CanonDate(out_v2.s).year = 2000 + YearField(raw_ts).val
        /\ (YearField(raw_ts).ok /\ YearField(raw_ts).val \notin 0..99) =>
              out_v1 = None /\ out_v2 = None

\* the first three digits of a fraction, zeros for the missing ones, as a number
FirstThree(frac) ==
    LET d(i) == IF i <= Len(frac) THEN DigitVal(frac[i]) ELSE 0
    IN  100 * d(1) + 10 * d(2) + d(3)

\* YYYY-MM-DD HH:MM:SS.f AM, every field at full width, f of one to six digits
IsPlainDrone(s) ==
    /\ Len(s) >= 24 /\ Len(s) <= 29
    /\ AllDigits(s, {1, 2, 3, 4, 6, 7, 9, 10, 12, 13, 15, 16, 18, 19})
    /\ s[5] = "-" /\ s[8] = "-" /\ s[11] = " " /\ s[14] = ":" /\ s[17] = ":"
    /\ s[20] = "." /\ AllDigits(s, 21..(Len(s) - 3))
    /\ s[Len(s) - 2] = " " /\ s[Len(s) - 1] \in {"A", "P"} /\ s[Len(s)] = "M"
    /\ DigitsAt(s, 12, 2) \in 1..12

DroneFraction(s) == SubSeq(s, 21, Len(s) - 3)

\* the Pacific wall time a plain drone time names, on the 24-hour clock
DroneDate(s) ==
    [year |-> DigitsAt(s, 1, 4), month |-> DigitsAt(s, 6, 2), day |-> DigitsAt(s, 9, 2),
     hour |-> (DigitsAt(s, 12, 2) % 12) + (IF s[Len(s) - 1] = "P" THEN 12 ELSE 0),
     minute |-> DigitsAt(s, 15, 2), second |-> DigitsAt(s, 18, 2)]

C11_FractionIffDigits ==
    /\ (V1Returned /\ IsValidRaw(raw_ts) /\ ZoneInfoFound(assume_tz_name)) =>
          /\ out_v1.kind = "str"
          /\ Len(out_v1.s) = 24 <=> Len(PlainFraction(raw_ts.s)) >= 1
    /\ (BothReturned /\ IsValidRaw(raw_ts)) =>
          /\ out_v2.kind = "str"
          /\ Len(out_v2.s) = 24 <=> Len(PlainFraction(raw_ts.s)) >= 1

\* year, month, day, hour, minute, second, millisecond, in field order
FieldKey(d, ms) == <<d.year, d.month, d.day, d.hour, d.minute, d.second, ms>>

RawKey(s) == FieldKey(PlainDate(s), FirstThree(PlainFraction(s)))

CanonKey(s) == FieldKey(CanonDate(s), CanonMs(s))

\* a is not later than b, field by field
NotLater(a, b) ==
    a = b \/ \E i \in 1..7 : a[i] < b[i] /\ \A j \in 1..(i - 1) : a[j] = b[j]

\* the hour Pacific clocks skip, under the rule of the date's own year
InPacificGap(d) ==
    /\ d.hour = 2
    /\ \/ d.year >= 2007 /\ d.month = 3 /\ IsNthSunday(d.year, 3, d.day, 2)
       \/ d.year < 2007 /\ d.month = 4 /\ IsNthSunday(d.year, 4, d.day, 1)

\* rows i and j of one run both came from valid raw timestamps
ValidPair(i, j) ==
    /\ ConvertRun
    /\ i \in 1..Len(rows) /\ j \in 1..Len(rows)
    /\ IsValidRaw(rows[i].raw_ts) /\ IsValidRaw(rows[j].raw_ts)

\* the ts of rows i and j end in Z and are in the order of their raw timestamps
InOrder(i, j) ==
    /\ rows[i].ts.kind = "str" /\ IsCanonical(rows[i].ts.s)
    /\ rows[j].ts.kind = "str" /\ IsCanonical(rows[j].ts.s)
    /\ rows[i].ts.s[Len(rows[i].ts.s)] = "Z"
    /\ NotLater(RawKey(rows[i].raw_ts.s), RawKey(rows[j].raw_ts.s))
         => NotLater(CanonKey(rows[i].ts.s), CanonKey(rows[j].ts.s))

C13_Idempotent ==
    (script = "parse_timestamp" /\ pc = "reparsed" /\ IsValidRaw(raw_ts)
       /\ ZoneInfoFound(assume_tz_name))
      => out_v1.kind = "str" /\ out_again = out_v1

\* C14: convert_file of convert_anemometer.py writes the header raw_ts, ts,
\* sn1, sn2, U, V, T, BatteryPct, BattV, BattC, in that order, when keep_sn is
\* true and the same list without sn1 and sn2 when it is false; every data row
\* has exactly the header's columns.
C14_Header ==
    (script = "convert_anemometer" /\ pc = "done") =>
        /\ out_file.exists
        /\ keep_sn => out_file.header = <<"raw_ts", "ts", "sn1", "sn2", "U", "V", "T",
                                          "BatteryPct", "BattV", "BattC">>
        /\ ~keep_sn => out_file.header = <<"raw_ts", "ts", "U", "V", "T",
                                           "BatteryPct", "BattV", "BattC">>
        /\ Len(out_file.data) = Len(rows)
        /\ \A i \in 1..Len(out_file.data) :
              DOMAIN out_file.data[i]
                = {out_file.header[k] : k \in 1..Len(out_file.header)}

\* C14 witness: a run with keep_sn false wrote the full reading line, SN items
\* in it, under the eight-column header
C14_Witness ==
    /\ script = "convert_anemometer" /\ pc = "done" /\ ~keep_sn
    /\ Len(out_file.header) = 8
    /\ Len(out_file.data) = 1
    /\ out_file.data[1]["raw_ts"] = PyStr(Chars("23:11:01:17:39:22.316"))
    /\ "sn1" \notin DOMAIN out_file.data[1]

VectorMain == script \in {"vector_math_anemo", "compare"}

\* a cell that holds zero, written either way
IsZeroCell(cell) == cell \in {PyStr(Chars("0")), PyStr(Chars("-0.0"))}

\* C15 (as claimed): every vector resolver of the repository, vector_math of
\* vector_math_anemo.py and of compare.py and the VectorMag / VectorDir
\* computation of Components_to_Vector.py, gives magnitude 0 and direction 0
\* for u = 0 and v = 0.
C15_ZeroVector ==
    /\ VectorMain =>
          \A i \in 1..Len(math_data) :
              (IsZeroCell(ame[i].U) /\ IsZeroCell(ame[i].V)) => math_data[i] = <<0, 0>>
    /\ (script = "Components_to_Vector" /\ pc = "done") =>
          \A i \in 1..Len(ame) :
              (IsZeroCell(ame[i].U) /\ IsZeroCell(ame[i].V)) =>
                  /\ vector_output.data[i].VectorMag = 0
                  /\ vector_output.data[i].VectorDir = 0

\* the components of input line i as whole numbers
ComponentsAt(i) == [u |-> FloatCell(ame[i].U).x, v |-> FloatCell(ame[i].V).x]

\* line i holds two numbers, not both zero
IsWindAt(i) ==
    /\ FloatCell(ame[i].U).ok /\ FloatCell(ame[i].V).ok
    /\ ComponentsAt(i).u # 0 \/ ComponentsAt(i).v # 0

\* (u, v) lies on an axis or on a diagonal
OnCompassPoint(c) == c.u = 0 \/ c.v = 0 \/ c.u = c.v \/ c.u = 0 - c.v

\* the bearing the wind blows from, in millionths of a degree, at the eight
\* compass points
CompassBearing(c) ==
    CASE c.u = 0 /\ c.v > 0 -> 180000000
      [] c.u > 0 /\ c.v = 0 -> 270000000
      [] c.u = 0 /\ c.v < 0 -> 0
      [] c.u < 0 /\ c.v = 0 -> 90000000
      [] c.u > 0 /\ c.v > 0 -> 225000000
      [] c.u > 0 /\ c.v < 0 -> 315000000
      [] c.u < 0 /\ c.v < 0 -> 45000000
      [] c.u < 0 /\ c.v > 0 -> 135000000

\* C16 (as claimed): for every non-zero (u, v), vector_math (both copies)
\* returns a direction in [0, 360) equal to (270 - degrees(atan2(v, u))) mod
\* 360: 180, 270, 0, 90 on the axes and 225, 315, 45, 135 on the diagonals.
C16_Bearing ==
    VectorMain =>
        \A i \in 1..Len(math_data) :
            IsWindAt(i) =>
                /\ math_data[i][2] >= 0 /\ math_data[i][2] < 360000000
                /\ math_data[i][2]
                     = (270000000 - Atan2Degrees(FloatCell(ame[i].V), FloatCell(ame[i].U)))
                         % 360000000
                /\ OnCompassPoint(ComponentsAt(i))
                     => math_data[i][2] = CompassBearing(ComponentsAt(i))

\* C17 (as claimed): for every (U, V) the VectorDir that Components_to_Vector.py
\* writes equals the direction vector_math returns for the same components,
\* and follows the meteorological convention its comment states.
C17_OneConvention ==
    (script = "Components_to_Vector" /\ pc = "done") =>
        \A i \in 1..Len(ame) :
            /\ vector_output.data[i].VectorDir
                 = vector_math(FloatCell(ame[i].U), FloatCell(ame[i].V))[2]
            /\ (IsWindAt(i) /\ OnCompassPoint(ComponentsAt(i)))
                 => vector_output.data[i].VectorDir = CompassBearing(ComponentsAt(i))

\* C18 (as claimed): when a record's U or V is no number, the run goes on, the
\* record still appears in the vector output with its raw U and V and with
\* Speed and Direction null, and the output has as many records as the input.
C18_InvalidKept ==
    VectorMain =>
        /\ raised = ""
        /\ pc = "done" =>
              /\ Len(vector_output.data) = Len(ame)
              /\ \A i \in 1..Len(ame) :
                    ~(FloatCell(ame[i].U).ok /\ FloatCell(ame[i].V).ok) =>
                        \E k \in 1..Len(vector_output.data) :
                            /\ vector_output.data[k].line = i
                            /\ vector_output.data[k].U = ame[i].U
                            /\ vector_output.data[k].V = ame[i].V
                            /\ vector_output.data[k].Speed = None
                            /\ vector_output.data[k].Direction = None

\* C19 (as claimed): in the matches of test(ame, dji) each anemometer record
\* and each drone record is in at most one matched pair, for any two series,
\* also when a timestamp occurs more than once.
C19_OneToOne ==
    script = "test" =>
        \A m, n \in 1..Len(matches) :
            m # n => matches[m][1] # matches[n][1] /\ matches[m][2] # matches[n][2]

\* the instants the two series have in common
CommonInstants ==
    {ame[i].ts : i \in 1..Len(ame)} \cap {dji[j].TimeStamp : j \in 1..Len(dji)}

\* the output names anemometer record i, or drone record j
NamesAme(i) ==
    \E k \in 1..Len(printed) :
        printed[k] \in {<<"Anemometer:", i>>, <<"Completed checking ame line:", ame[i].ts>>}

NamesDji(j) == \E k \in 1..Len(printed) : printed[k] = <<"DJI:", j>>

\* C20 (as claimed): with tolerance zero, two series with exactly one instant
\* in common give exactly one matched pair, the two records with that instant,
\* and every other record of both series is reported in the result.
C20_OneCommonInstant ==
    (script = "test" /\ pc = "done" /\ Cardinality(CommonInstants) = 1) =>
        /\ Len(matches) = 1
        /\ ame[matches[1][1]].ts \in CommonInstants
        /\ dji[matches[1][2]].TimeStamp \in CommonInstants
        /\ \A i \in 1..Len(ame) : NamesAme(i)
        /\ \A j \in 1..Len(dji) : NamesDji(j)

\* C21 (as claimed): alignment is symmetric in its two inputs: the matched
\* pairs of test(dji, ame) are the matched pairs of test(ame, dji) with the
\* members of each pair exchanged.
C21_Symmetric ==
    (script = "test" /\ pc = "swapped") =>
        /\ swapped.kind = "printed"
        /\ swapped.s = {<<matches[m][2], matches[m][1]>> : m \in 1..Len(matches)}

\* C22 (as claimed): a drone record normalized by convert_UTC and an anemometer
\* record normalized by parse_timestamp that denote the same UTC instant are
\* matched by the aligner, also when the instant is a whole second.
C22_SameInstantMatched ==
    ( /\ script = "pipeline" /\ pc = "done"
      /\ CanonKey(out_v1.s) = CanonKey(df_utc[1].s) ) =>
        matches = <<<<1, 1>>>>

\* a run of one of the two loaders
LoaderRun == script \in {"load_anemometer_csv", "load_drone_csv"}

RECURSIVE ArgsOf(_)
\* every params tuple handed to execute_batch by a log, in order
ArgsOf(log) ==
    IF log = <<>> THEN <<>>
    ELSE (IF Head(log).op = "execute_batch" THEN Head(log).argslist ELSE <<>>)
         \o ArgsOf(Tail(log))

\* every params tuple handed to execute_batch so far
Inserted == ArgsOf(db)

\* a text of no characters, or of whitespace only
IsBlankText(v) == v.kind = "str" /\ \A n \in 1..Len(v.s) : v.s[n] \in {" ", "\t", "\n"}

\* the value of the CSV that the loader reads for parameter k of row i
CellRead(i, k) ==
    IF LoaderKeys[k] \in DOMAIN LoaderRows[i] THEN LoaderRows[i][LoaderKeys[k]] ELSE None

\* C23: no parameter handed to an INSERT is an empty or whitespace-only
\* string: a missing, empty or blank CSV value is passed as null and every
\* other value is passed unchanged.
C23_NoBlankParams ==
    LoaderRun =>
        \A i \in 1..Len(Inserted) : \A k \in 1..Len(LoaderKeys) :
            /\ ~IsBlankText(Inserted[i][k])
            /\ Inserted[i][k] =
                 IF CellRead(i, k) = None \/ IsBlankText(CellRead(i, k))
                 THEN None ELSE CellRead(i, k)

\* a finished load that met a whitespace-only cell, an empty cell, a missing
\* cell and a cell with a value
C23_Witness ==
    /\ LoaderRun /\ pc = "done"
    /\ \E i \in 1..Len(Inserted) : \E k \in 1..Len(LoaderKeys) :
           IsBlankText(CellRead(i, k)) /\ CellRead(i, k).s # <<>> /\ Inserted[i][k] = None
    /\ \E i \in 1..Len(Inserted) : \E k \in 1..Len(LoaderKeys) :
           CellRead(i, k) = EmptyStr /\ Inserted[i][k] = None
    /\ \E i \in 1..Len(Inserted) : \E k \in 1..Len(LoaderKeys) :
           LoaderKeys[k] \in DOMAIN LoaderRows[i] /\ CellRead(i, k) = None
    /\ \E i \in 1..Len(Inserted) : \E k \in 1..Len(LoaderKeys) :
           Inserted[i][k] # None /\ Inserted[i][k] = CellRead(i, k)

\* the expected CSV column that belongs to each column of the drone INSERT,
\* in the order of the statement's placeholders
DroneSourceOf ==
    [drone_time_utc |-> "Drone_Time(UTC+RFC3339)",
     drone_time_pst |-> "Drone_Time(PST)",
     update_time_local_raw |-> "CUSTOM.updateTime [local]",
     wind_direction |-> "WEATHER.windDirection",
     wind_relative_direction |-> "WEATHER.windRelativeDirection",
     wind_speed_mph |-> "WEATHER.windSpeed [MPH]",
     max_wind_speed_mph |-> "WEATHER.maxWindSpeed [MPH]",
     wind_strength |-> "WEATHER.windStrength",
     is_facing_wind |-> "WEATHER.isFacingWind",
     is_flying_into_wind |-> "WEATHER.isFlyingIntoWind",
     drone_direction_deg |-> "Drone_Direction"]

\* the rows of this run have the 11 expected columns
HasDroneColumns ==
    \A i \in 1..Len(dji) :
        DOMAIN dji[i] = {DroneColumns[k] : k \in 1..Len(DroneColumns)}

\* C24 (as claimed): for each row of a CSV with the 11 expected columns,
\* load_drone_csv passes the value of every expected column to its table
\* column; a non-empty Drone_Direction is inserted as drone_direction_deg.
C24_ColumnsInserted ==
    (script = "load_drone_csv" /\ HasDroneColumns) =>
        \A n \in 1..Len(db) : db[n].op = "execute_batch" =>
            \A a \in 1..Len(db[n].argslist) : \E i \in 1..Len(dji) :
                \A k \in 1..Len(db[n].columns) :
                    LET value == dji[i][DroneSourceOf[db[n].columns[k]]]
                    IN  db[n].argslist[a][k] =
                          IF value = None \/ IsBlankText(value) THEN None ELSE value

\* the rows read so far that no execute_batch has been given yet
Pending == IF pc = "done" THEN <<>> ELSE batch

\* C25: for any CSV and any batch_size of at least 1, the loaders hand every
\* row to execute_batch exactly once, in file order, in batches of at most
\* batch_size rows, commit after every batch, and return with no row pending.
C25_Batches ==
    LoaderRun =>
        /\ Inserted \o Pending = [i \in 1..index |-> Params(LoaderRows[i], LoaderKeys)]
        /\ \A n \in 1..Len(db) :
              IF n % 2 = 1
              THEN /\ db[n].op = "execute_batch"
                   /\ Len(db[n].argslist) \in 1..batch_size
                   /\ n < Len(db)
              ELSE db[n].op = "commit"
        /\ pc = "done" => Len(Inserted) = Len(LoaderRows)

\* a finished load of full batches and a last, smaller one
C25_Witness ==
    /\ LoaderRun /\ pc = "done" /\ batch_size > 1
    /\ Len(db) >= 4
    /\ Len(db[1].argslist) = batch_size
    /\ Len(db[Len(db) - 1].argslist) < batch_size

\* a run of parse_line alone
ScanRun == script \in {"parse_line", "parse_line_v2"}

\* the tokens of the line of this run
ScanParts == SplitWs(Strip(lines[1]))

\* the row field each known key names
FieldOfKey ==
    [t \in {"U", "V", "T", "Battery%", "BATTV", "BATTC"} |->
        CASE t = "U" -> "U" [] t = "V" -> "V" [] t = "T" -> "T"
          [] t = "Battery%" -> "BatteryPct" [] t = "BATTV" -> "BattV"
          [] t = "BATTC" -> "BattC"]

\* how many SN items lead the tokens after the timestamp, two at most
LeadingSn ==
    IF Len(ScanParts) >= 2 /\ IsSnItem(ScanParts[2])
    THEN (IF Len(ScanParts) >= 3 /\ IsSnItem(ScanParts[3]) THEN 2 ELSE 1)
    ELSE 0

\* the step handles the token at scan.index in the one way that is its own
HandledOneWay ==
    LET item == ScanParts[scan.index]
        text == Str(item)
        others == DOMAIN scan.row \ {scan.current_key}
    IN  /\ scan'.index = scan.index + 1
        /\ scan'.row.raw_ts = PyStr(ScanParts[1])
        /\ DOMAIN scan'.row = DOMAIN scan.row
        /\ IF text \in DOMAIN FieldOfKey
           THEN scan'.current_key = FieldOfKey[text] /\ scan'.row = scan.row
           ELSE IF scan.current_key # ""
           THEN /\ scan'.current_key = ""
                /\ \A f \in others : scan'.row[f] = scan.row[f]
                /\ scan'.row[scan.current_key] =
                     IF PyFloat(item).ok THEN PyFloat(item).val ELSE EmptyStr
           ELSE scan'.current_key = "" /\ scan'.row = scan.row

\* C26: in parse_line every token after the timestamp and after up to two
\* leading SN items is handled in exactly one of three ways: a known key
\* becomes the pending key; a token after a pending key sets only that key's
\* field, to its float value or to empty, and clears the pending key; any
\* other token leaves the row unchanged. raw_ts stays the first token of the
\* line and the scan ends when each token has been visited once.
C26_TokenHandling ==
    [][ ScanRun =>
          /\ (pc = "start" /\ pc' = "pairs") =>
                /\ scan'.index = 2 + (IF script = "parse_line" THEN LeadingSn ELSE 0)
                /\ scan'.current_key = ""
                /\ scan'.row.raw_ts = PyStr(ScanParts[1])
          /\ (pc = "pairs" /\ pc' = "pairs") => HandledOneWay
          /\ (pc = "pairs" /\ pc' = "done") =>
                scan' = scan /\ scan.index = Len(ScanParts) + 1 ]_vars

\* a finished scan that skipped a word, took a key and read its value
C26_Witness ==
    /\ script = "parse_line" /\ pc = "done"
    /\ lines[1] = Chars("23:11:01:17:39:22 x U 1.5\n")
    /\ scan.index = 5
    /\ scan.row.U = Num("float", 15, 1)
    /\ scan.row.raw_ts = PyStr(Chars("23:11:01:17:39:22"))

=============================================================================
